---------------------------- MODULE Spec2Model ----------------------------
(***************************************************************************)
(* Order notification / reply reconciliation of the WhatsApp notifier.     *)
(*                                                                         *)
(* The repository holds several generations of src/server.js and           *)
(* src/store.js.  A run of the program is one server generation on one     *)
(* store generation; the variable `build` fixes the pair for a behaviour.  *)
(* Text is a sequence of one-character strings, so trimming, lower-casing  *)
(* and the anchored regular expressions are computed, not assumed.         *)
(***************************************************************************)
EXTENDS Integers, Sequences, FiniteSets, TLC

\* ------------------------------------------------------------------ bounds
MaxOrders == 2      \* order documents the store may hold
MaxMessages == 2    \* inbound messages of one behaviour, over all its webhook calls

\* -------------------------------------------------------------------- text
UpperChars == <<"A","B","C","D","E","F","G","H","I","J","K","L","M",
                "N","O","P","Q","R","S","T","U","V","W","X","Y","Z">>
LowerChars == <<"a","b","c","d","e","f","g","h","i","j","k","l","m",
                "n","o","p","q","r","s","t","u","v","w","x","y","z">>
DigitChars == <<"0","1","2","3","4","5","6","7","8","9">>

IsDigit(c) == \E i \in DOMAIN DigitChars : DigitChars[i] = c
IsSpace(c) == c \in {" ", "\t", "\n"}

LowerChar(c) ==
    IF \E i \in DOMAIN UpperChars : UpperChars[i] = c
    THEN LowerChars[CHOOSE i \in DOMAIN UpperChars : UpperChars[i] = c]
    ELSE c

UpperChar(c) ==
    IF \E i \in DOMAIN LowerChars : LowerChars[i] = c
    THEN UpperChars[CHOOSE i \in DOMAIN LowerChars : LowerChars[i] = c]
    ELSE c

\* String.prototype.toUpperCase
toUpperCase(s) == [i \in DOMAIN s |-> UpperChar(s[i])]

\* String.prototype.toLowerCase / the regular expressions' i flag
toLowerCase(s) == [i \in DOMAIN s |-> LowerChar(s[i])]

RECURSIVE TrimLeft(_)
TrimLeft(s) == IF s # <<>> /\ IsSpace(Head(s)) THEN TrimLeft(Tail(s)) ELSE s

RECURSIVE TrimRight(_)
TrimRight(s) ==
    IF s # <<>> /\ IsSpace(s[Len(s)]) THEN TrimRight(SubSeq(s, 1, Len(s) - 1)) ELSE s

\* String.prototype.trim
trim(s) == TrimRight(TrimLeft(s))

\* String.prototype.includes / an unanchored regular expression of one literal
includes(s, t) ==
    \E i \in 1..(Len(s) - Len(t) + 1) : SubSeq(s, i, i + Len(t) - 1) = t

\* String(raw).replace(/\D/g, '')
RECURSIVE StripNonDigits(_)
StripNonDigits(s) ==
    IF s = <<>> THEN <<>>
    ELSE (IF IsDigit(Head(s)) THEN <<Head(s)>> ELSE <<>>) \o StripNonDigits(Tail(s))

\* String(n) of a non-negative integer
RECURSIVE String(_)
String(n) ==
    IF n < 10 THEN <<DigitChars[n + 1]>>
    ELSE String(n \div 10) \o <<DigitChars[(n % 10) + 1]>>

\* a || b on strings: the empty string is falsy
Or(a, b) == IF a # <<>> THEN a ELSE b

\* the values null / undefined, told apart from every text
Null == <<"null">>

\* ------------------------------------------------------------- configuration
DEFAULT_COUNTRY_CODE == <<"9", "1">>

\* ---------------------------------------------------------------- the builds
\*   yesno      server.js (combined COD generation) on store.js
\*   optout     server.js (opt-out generation) on store.js
\*   codtext    the server generation kept in store.js (quick-reply texts) on store.js
\*   codpayload the server generation with the pending-COD lookup on its own store
\*   upsert     the yes/no inbound handler on the upserting store
\*   lazy       the yes/no inbound handler on the lazily connecting store
Builds == {"yesno", "optout", "codtext", "codpayload", "upsert", "lazy"}

VARIABLES
    build,      \* the server / store generation that runs
    db,         \* the store's connection: "none", "up" or "failed"
    orders,     \* the orders collection, in insertion order
    messages,   \* the messages collection, in insertion order
    now,        \* the clock new Date() reads, ticking at every write of an order
    calls,      \* the inbound webhook calls: batch, position, answer
    hook,       \* the shop webhook call followed step by step: request, sends, answer
    env,        \* the environment the server was started with
    fn,         \* one call of a helper function of the server: argument and result
    conn,       \* the store module's connection: its variables, attempts, operations
    admin       \* the admin broadcast request followed step by step

vars == <<build, db, orders, messages, now, calls, hook, env, fn, conn, admin>>

\* what the inbound handlers and the stores never touch
hookvars == <<hook, env, fn, conn, admin>>


\* ------------------------------------------------------------ which code runs
\* the store generation a build runs on
StoreOf(b) ==
    CASE b \in {"yesno", "optout", "codtext"} -> "store"
      [] b = "codpayload" -> "indexed"
      [] b = "upsert" -> "upsert"
      [] b = "lazy" -> "lazy"

\* --------------------------------------------------------------------- inputs
txt_yes          == <<"y", "e", "s">>
txt_y            == <<"y">>
txt_confirm      == <<"c", "o", "n", "f", "i", "r", "m">>
txt_ok           == <<"o", "k">>
txt_okay         == <<"o", "k", "a", "y">>
txt_confirmed    == <<"c", "o", "n", "f", "i", "r", "m", "e", "d">>
txt_no           == <<"n", "o">>
txt_n            == <<"n">>
txt_cancel       == <<"c", "a", "n", "c", "e", "l">>
txt_reject       == <<"r", "e", "j", "e", "c", "t">>
txt_stop         == <<"s", "t", "o", "p">>
txt_confirm_cod  == <<"c", "o", "n", "f", "i", "r", "m", " ", "c", "o", "d">>
txt_cancel_order == <<"c", "a", "n", "c", "e", "l", " ", "o", "r", "d", "e", "r">>
txt_Confirm_COD  == <<"C", "o", "n", "f", "i", "r", "m", " ", "C", "O", "D">>
txt_Cancel_Order == <<"C", "a", "n", "c", "e", "l", " ", "O", "r", "d", "e", "r">>
txt_cod_yes      == <<"c", "o", "d", "_", "y", "e", "s">>
txt_cod_no       == <<"c", "o", "d", "_", "n", "o">>
txt_cod          == <<"c", "o", "d">>
txt_cash         == <<"c", "a", "s", "h">>
txt_cash_on_delivery == <<"c", "a", "s", "h", " ", "o", "n", " ", "d", "e", "l", "i", "v", "e", "r", "y">>
txt_cash_dash_on_delivery == <<"c", "a", "s", "h", "-", "o", "n", "-", "d", "e", "l", "i", "v", "e", "r", "y">>
txt_pending      == <<"p", "e", "n", "d", "i", "n", "g">>

PhoneA == <<"9", "1", "9", "8", "7", "6", "5", "4", "3", "2", "1", "0">>
PhoneB == <<"9", "1", "9", "8", "1", "1", "1", "2", "2", "2", "2", "2">>

\* a text of n times the character c
Repeat(c, n) == [k \in 1..n |-> c]

\* line_items of an order payload
LineItem(title, quantity) == [title |-> title, quantity |-> quantity]
OneItem == <<LineItem(<<"C", "a", "s", "e">>, 1)>>
TwoItems == <<LineItem(<<"C", "a", "s", "e">>, 2), LineItem(<<"S", "k", "i", "n">>, 10)>>
LongItems == <<LineItem(Repeat("a", 460), 1), LineItem(Repeat("b", 460), 12)>>

\* order-creation payloads the shop delivers (each may be delivered again)
OrderCOD ==
    [id |-> 1, name |-> <<"#", "1">>,
     phone |-> <<"9", "8", "7", "6", "5", "4", "3", "2", "1", "0">>,
     custPhone |-> <<>>, shipPhone |-> <<>>,
     gateways |-> << <<"C", "a", "s", "h", " ", "o", "n", " ", "D", "e", "l", "i", "v", "e", "r", "y">> >>,
     gateway |-> <<>>, fs |-> <<"p", "e", "n", "d", "i", "n", "g">>, sig |-> "valid",
     lineItems |-> OneItem]
OrderPrepaid ==
    [id |-> 2, name |-> <<>>,
     phone |-> <<>>,
     custPhone |-> <<"0", "9", "8", "7", "6", "5", "4", "3", "2", "1", "0">>,
     shipPhone |-> <<>>,
     gateways |-> << <<"r", "a", "z", "o", "r", "p", "a", "y">> >>,
     gateway |-> <<"r", "a", "z", "o", "r", "p", "a", "y">>,
     fs |-> <<"p", "a", "i", "d">>, sig |-> "valid", lineItems |-> TwoItems]
OrderOther ==
    [id |-> 3, name |-> <<"#", "3">>,
     phone |-> <<>>, custPhone |-> <<>>,
     shipPhone |-> <<"+", "9", "1", " ", "9", "8", "1", "1", "1", "-", "2", "2", "2", "2", "2">>,
     gateways |-> <<>>,
     gateway |-> <<"C", "O", "D">>, fs |-> <<"p", "e", "n", "d", "i", "n", "g">>, sig |-> "valid",
     lineItems |-> LongItems]
OrderForged  == [OrderCOD EXCEPT !.sig = "forged"]
OrderNoPhone == [OrderPrepaid EXCEPT !.custPhone = <<>>]

OrderPayloads == {OrderCOD, OrderPrepaid, OrderOther, OrderForged, OrderNoPhone}

\* inbound messages the transport delivers
Msg(from, text, btext, bpayload, type, id) ==
    [from |-> from, text |-> text, btext |-> btext, bpayload |-> bpayload,
     type |-> type, id |-> id]

InboundMessages ==
    { Msg(PhoneA, <<"y", "e", "s">>, <<>>, <<>>, "text", "m1"),
      Msg(PhoneA, <<"N", "o">>, <<>>, <<>>, "text", "m2"),
      Msg(PhoneA, <<"h", "i">>, <<>>, <<>>, "text", "m3"),
      Msg(PhoneA, <<>>, txt_Confirm_COD, txt_cod_yes, "button", "m4"),
      Msg(PhoneB, <<" ", "o", "k", " ">>, <<>>, <<>>, "text", "m5") }

RECURSIVE SeqsUpTo(_, _)
SeqsUpTo(S, n) ==
    IF n = 0 THEN {<<>>}
    ELSE LET shorter == SeqsUpTo(S, n - 1)
         IN  shorter \cup {Append(s, x) : s \in {t \in shorter : Len(t) = n - 1}, x \in S}

Batches == SeqsUpTo(InboundMessages, MaxMessages)

\* ------------------------------------------------------------------ server.js
\* verifyShopifyHmac that lets every request through
verifyShopifyHmacUnchecked(o) == o.sig \in {"valid", "forged"}

\* verifyShopifyHmac: the header equals the digest of the raw body
verifyShopifyHmac(o) == o.sig = "valid"

\* normalizePhone that keeps the leading 0 of an 11-digit number
normalizePhoneKeepingZero(raw) ==
    IF raw = <<>> \/ raw = Null THEN Null
    ELSE LET d == StripNonDigits(raw)
         IN  IF Len(d) = 10 THEN DEFAULT_COUNTRY_CODE \o d
             ELSE IF d # <<>> /\ Head(d) = "0" /\ Len(d) = 11
                  THEN DEFAULT_COUNTRY_CODE \o d
                  ELSE d

normalizePhone(raw) ==
    IF raw = <<>> \/ raw = Null THEN Null
    ELSE LET d == StripNonDigits(raw)
         IN  IF Len(d) = 10 THEN DEFAULT_COUNTRY_CODE \o d
             ELSE IF d # <<>> /\ Head(d) = "0" /\ Len(d) = 11
                  THEN DEFAULT_COUNTRY_CODE \o Tail(d)
                  ELSE d

\* o.phone || o.customer?.phone || o.shipping_address?.phone
PayloadPhone(o) == Or(o.phone, Or(o.custPhone, o.shipPhone))

\* the COD test of the pending-COD generation
codLikely(o) ==
    LET gateways == [i \in DOMAIN o.gateways |-> toLowerCase(o.gateways[i])]
        some(P(_)) == \E i \in DOMAIN gateways : P(gateways[i])
        codName(g) == \/ includes(g, txt_cod)
                      \/ includes(g, txt_cash_on_delivery)
                      \/ includes(g, txt_cash_dash_on_delivery)
        cashName(g) == includes(g, txt_cash)
        gw == toLowerCase(o.gateway)
    IN  \/ some(codName)
        \/ includes(gw, txt_cod) \/ includes(gw, txt_cash)
        \/ (toLowerCase(o.fs) = txt_pending /\ some(cashName))

\* the document orders-create hands to store.addOrder
OrderDoc(b, o) ==
    [id        |-> o.id,
     orderId   |-> Or(o.name, String(o.id)),
     phone     |-> normalizePhone(PayloadPhone(o)),
     status    |-> IF b = "codpayload" /\ codLikely(o) THEN "pending_cod" ELSE "pending",
     cod       |-> b = "codpayload" /\ codLikely(o),
     lastReply |-> Null,
     createdAt |-> 0,
     updatedAt |-> 0]

\* /^(yes|y|confirm|ok|okay|confirmed)$/i and /^(no|n|cancel|reject|stop)$/i
YesWords == {txt_yes, txt_y, txt_confirm, txt_ok, txt_okay, txt_confirmed}
NoWords  == {txt_no, txt_n, txt_cancel, txt_reject, txt_stop}

isYesText(txt) == toLowerCase(txt) \in YesWords
isNoText(txt)  == toLowerCase(txt) \in NoWords

\* the pending-COD generation's yes test leaves "confirmed" out
YesWordsCodPayload == {txt_yes, txt_y, txt_confirm, txt_ok, txt_okay}

\* the text the inbound handler works with
Body(b, m) ==
    CASE b = "codtext" -> trim(Or(m.btext, m.text))
      [] b = "codpayload" ->
            IF m.text # <<>> THEN trim(m.text)
            ELSE IF m.btext # <<>> THEN trim(m.btext) ELSE <<>>
      [] OTHER ->
            IF m.btext # <<>> THEN trim(m.btext)
            ELSE IF m.text # <<>> THEN trim(m.text) ELSE <<>>

\* the button payload, read by the pending-COD generation only
Payload(b, m) == IF b = "codpayload" THEN trim(m.bpayload) ELSE <<>>

\* the branch of the inbound handler a message takes
ReplyKind(b, m) ==
    LET body == Body(b, m)
    IN  CASE b = "codtext" ->
               IF toLowerCase(body) = txt_confirm_cod THEN "confirm"
               ELSE IF toLowerCase(body) = txt_cancel_order THEN "reject"
               ELSE IF isYesText(body) THEN "confirm"
               ELSE IF isNoText(body) THEN "reject"
               ELSE "other"
          [] b = "codpayload" ->
               IF Payload(b, m) = txt_cod_yes \/ toLowerCase(body) \in YesWordsCodPayload
               THEN "confirm"
               ELSE IF Payload(b, m) = txt_cod_no \/ isNoText(body) THEN "reject"
               ELSE "other"
          [] OTHER ->
               IF isYesText(body) THEN "confirm"
               ELSE IF isNoText(body) THEN "reject"
               ELSE "other"

\* a $set patch: status "" and lastReply Null stand for an absent key
Patch(status, lastReply) == [status |-> status, lastReply |-> lastReply]

\* StatusOf with a default branch that writes the initial status
StatusOfReopening(kind) ==
    CASE kind = "confirm" -> "confirmed"
      [] kind = "reject" -> "rejected"
      [] OTHER -> "pending"

\* StatusOf with the two branches exchanged
StatusOfSwapped(kind) ==
    CASE kind = "confirm" -> "rejected"
      [] kind = "reject" -> "confirmed"
      [] OTHER -> ""

\* the status each classification writes ("" = the patch carries no status)
StatusOf(kind) ==
    CASE kind = "confirm" -> "confirmed"
      [] kind = "reject" -> "rejected"
      [] OTHER -> ""

\* the text the handler writes to lastReply
LastReplyOf(b, m) ==
    LET body == Body(b, m)
    IN  CASE b = "codtext" /\ toLowerCase(body) = txt_confirm_cod -> txt_Confirm_COD
          [] b = "codtext" /\ toLowerCase(body) = txt_cancel_order -> txt_Cancel_Order
          [] b = "codpayload" -> Or(body, Payload(b, m))
          [] OTHER -> body

\* ReplyPatch that leaves the status out of every patch
ReplyPatchLastReplyOnly(b, m) == Patch("", LastReplyOf(b, m))

\* the patch the handler passes to updateLatestOrderByPhone
ReplyPatch(b, m) == Patch(StatusOf(ReplyKind(b, m)), LastReplyOf(b, m))

\* the patch the pending-COD generation passes to setOrderStatusById
StatusPatch(b, m) == Patch(StatusOf(ReplyKind(b, m)), Null)

\* the document the handler hands to store.addMessage
MessageDoc(b, m) ==
    [from |-> m.from, body |-> Body(b, m),
     payload |-> IF b = "codpayload" THEN Payload(b, m) ELSE Null,
     type |-> m.type, id |-> m.id]

\* ------------------------------------------------------------------- store.js
\* { $set: patch } with updatedAt stamped
\* an update without $set: the patch's fields replace the document's, absent or not
ApplySetReplacing(doc, patch, t) ==
    [doc EXCEPT !.status = patch.status, !.lastReply = patch.lastReply, !.updatedAt = t]

ApplySet(doc, patch, t) ==
    [doc EXCEPT !.status    = IF patch.status = "" THEN @ ELSE patch.status,
                !.lastReply = IF patch.lastReply = Null THEN @ ELSE patch.lastReply,
                !.updatedAt = t]

\* a filter that leaves the phone out and matches every document
ByAnyPhone(ords, phone) == {i \in DOMAIN ords : ords[i].phone \in {phone, ords[i].phone}}

\* the documents a filter { phone } matches
ByPhone(ords, phone) == {i \in DOMAIN ords : ords[i].phone = phone}

\* the key each store generation sorts on, descending
SortKey(st, doc) == IF st = "upsert" THEN doc.updatedAt ELSE doc.createdAt

\* the documents that may come first under the sort (ties are left open)
SortFirst(st, ords, S) ==
    {i \in S : \A j \in S : SortKey(st, ords[j]) <= SortKey(st, ords[i])}

\* the collection after updateLatestOrderByPhone(phone, patch) touched document i
updateLatestOrderByPhone(ords, i, patch, t) ==
    [ords EXCEPT ![i] = ApplySet(@, patch, t)]

\* findLatestPendingCODByPhone: { phone, cod: true, status: 'pending_cod' }, newest first
PendingCOD(ords, phone) ==
    {i \in ByPhone(ords, phone) : ords[i].cod /\ ords[i].status = "pending_cod"}

findLatestPendingCODByPhone(ords, phone) ==
    SortFirst("indexed", ords, PendingCOD(ords, phone))

\* setOrderStatusById: updateOne({ orderId }), whichever matching document comes first
ByOrderId(ords, orderId) == {i \in DOMAIN ords : ords[i].orderId = orderId}

setOrderStatusById(ords, i, patch, t) ==
    [ords EXCEPT ![i] = ApplySet(@, patch, t)]

\* addOrder
addOrder(st, ords, doc, t) ==
    CASE st = "store" -> Append(ords, [doc EXCEPT !.createdAt = t])
      [] st \in {"indexed", "lazy"} ->
            Append(ords, [doc EXCEPT !.createdAt = t, !.updatedAt = t])
      [] st = "upsert" ->
            LET same == {i \in DOMAIN ords : ords[i].id = doc.id}
            IN  IF same = {} THEN Append(ords, doc)
                ELSE LET i == CHOOSE k \in same : \A j \in same : k <= j
                     IN  [ords EXCEPT ![i] = [@ EXCEPT !.orderId = doc.orderId,
                                                       !.phone = doc.phone,
                                                       !.status = doc.status]]

\* addMessage as an upsert keyed by the sender: one record per phone
addMessageBySender(msgs, doc) ==
    LET same == {k \in DOMAIN msgs : msgs[k].from = doc.from}
    IN  IF same = {} THEN Append(msgs, doc)
        ELSE [msgs EXCEPT ![CHOOSE k \in same : \A j \in same : k <= j] = doc]

\* addMessage: insertOne; createdAt grows with the position in the collection
addMessage(msgs, doc) == Append(msgs, doc)

\* ------------------------------------------------------------ the store's reach
\* how one store operation can end: done, thrown, or silently skipped (the lazily
\* connecting store returns without a word while it has no connection)
Outcomes ==
    CASE db = "failed" -> {"throw"}
      [] db = "none" -> {"ok", "throw", "skip"}
      [] OTHER -> {"ok", "throw"}

\* ready(): a connection made for this operation stays
DbAfter(out) == IF db = "none" /\ out # "skip" THEN "up" ELSE db

\* --------------------------------------------------------------- the handlers
Calls == 1..MaxMessages

\* the messages the calls so far have carried
RECURSIVE Carried(_)
Carried(k) == IF k = 0 THEN 0 ELSE Len(calls[k].batch) + Carried(k - 1)

\* pc: where the handler stands; i: the message of the batch it works on; ord: the
\* orderId the pending-COD lookup returned; res: what was sent; at: where it threw
Idle == [pc |-> "idle", batch |-> <<>>, i |-> 0, ord |-> Null, res |-> "none",
         at |-> "none"]

Cur(c) == calls[c].batch[calls[c].i]

\* the catch block: the batch is abandoned and 'err' is sent
Thrown(c) == [calls EXCEPT ![c].pc = "done", ![c].res = "err", ![c].at = calls[c].pc]

\* the end of one loop round: the next message, or res.send('ok')
Continue(c) ==
    IF calls[c].i < Len(calls[c].batch)
    THEN [calls EXCEPT ![c].pc = "add", ![c].i = @ + 1, ![c].ord = Null]
    ELSE [calls EXCEPT ![c].pc = "done", ![c].res = "ok", ![c].ord = Null]

\* where the handler goes once the message is saved
AfterAdd(b, m) ==
    IF b = "codpayload" /\ ReplyKind(b, m) \in {"confirm", "reject"} THEN "find" ELSE "upd"

\* POST /webhooks/whatsapp arrives
Receive(c, batch) ==
    /\ calls[c].pc = "idle"
    /\ \A k \in 1..(c - 1) : calls[k].pc # "idle"
    /\ Carried(MaxMessages) + Len(batch) <= MaxMessages
    /\ calls' = [calls EXCEPT ![c] =
          IF build = "optout"
          THEN [Idle EXCEPT !.pc = "done", !.batch = batch, !.res = "err",
                            !.at = "getDb"]
          ELSE IF batch = <<>>
          THEN [Idle EXCEPT !.pc = "done", !.res = "ok"]
          ELSE [Idle EXCEPT !.pc = "add", !.batch = batch, !.i = 1]]
    /\ UNCHANGED <<build, db, orders, messages, now>>
    /\ UNCHANGED hookvars

\* await store.addMessage(...)
SaveMessage(c) ==
    /\ calls[c].pc = "add"
    /\ \E out \in Outcomes :
          /\ db' = DbAfter(out)
          /\ CASE out = "ok" ->
                    /\ messages' = addMessage(messages, MessageDoc(build, Cur(c)))
                    /\ calls' = [calls EXCEPT ![c].pc = AfterAdd(build, Cur(c))]
               [] out = "skip" ->
                    /\ calls' = [calls EXCEPT ![c].pc = AfterAdd(build, Cur(c))]
                    /\ UNCHANGED messages
               [] OTHER ->
                    /\ calls' = Thrown(c)
                    /\ UNCHANGED messages
    /\ UNCHANGED <<build, orders, now>>
    /\ UNCHANGED hookvars

\* await store.findLatestPendingCODByPhone(from)
FindPending(c) ==
    /\ calls[c].pc = "find"
    /\ \E out \in Outcomes :
          /\ db' = DbAfter(out)
          /\ IF out = "ok"
             THEN LET found == findLatestPendingCODByPhone(orders, Cur(c).from)
                  IN  IF found = {}
                      THEN calls' = [calls EXCEPT ![c].pc = "upd"]
                      ELSE \E i \in found :
                              calls' = [calls EXCEPT ![c].pc = "set",
                                                     ![c].ord = orders[i].orderId]
             ELSE calls' = Thrown(c)
    /\ UNCHANGED <<build, orders, messages, now>>
    /\ UNCHANGED hookvars

\* await store.setOrderStatusById(ord.orderId, { status })
SetStatus(c) ==
    /\ calls[c].pc = "set"
    /\ \E out \in Outcomes :
          /\ db' = DbAfter(out)
          /\ IF out = "ok"
             THEN /\ \E i \in ByOrderId(orders, calls[c].ord) :
                        orders' = setOrderStatusById(orders, i,
                                                     StatusPatch(build, Cur(c)), now + 1)
                  /\ now' = now + 1
                  /\ calls' = Continue(c)
             ELSE /\ calls' = Thrown(c)
                  /\ UNCHANGED <<orders, now>>
    /\ UNCHANGED <<build, messages>>
    /\ UNCHANGED hookvars

\* await store.updateLatestOrderByPhone(from, patch)
UpdateLatest(c) ==
    /\ calls[c].pc = "upd"
    /\ \E out \in Outcomes :
          /\ db' = DbAfter(out)
          /\ CASE out = "ok" ->
                    LET first == SortFirst(StoreOf(build), orders,
                                           ByPhone(orders, Cur(c).from))
                    IN  /\ IF first = {}
                           THEN UNCHANGED <<orders, now>>
                           ELSE /\ \E i \in first :
                                     orders' = updateLatestOrderByPhone(
                                                   orders, i, ReplyPatch(build, Cur(c)), now + 1)
                                /\ now' = now + 1
                        /\ calls' = Continue(c)
               [] out = "skip" ->
                    /\ calls' = Continue(c)
                    /\ UNCHANGED <<orders, now>>
               [] OTHER ->
                    /\ calls' = Thrown(c)
                    /\ UNCHANGED <<orders, now>>
    /\ UNCHANGED <<build, messages>>
    /\ UNCHANGED hookvars

\* POST /webhooks/shopify/orders-create, up to the saved order
OrdersCreate(o) ==
    /\ Len(orders) < MaxOrders
    /\ IF ~verifyShopifyHmac(o)
       THEN UNCHANGED <<db, orders, now>>
       ELSE IF normalizePhone(PayloadPhone(o)) \in {Null, <<>>}
       THEN UNCHANGED <<db, orders, now>>
       ELSE \E out \in Outcomes :
               /\ db' = DbAfter(out)
               /\ CASE out = "ok" ->
                         /\ orders' = addOrder(StoreOf(build), orders,
                                               OrderDoc(build, o), now + 1)
                         /\ now' = IF StoreOf(build) = "upsert" THEN now ELSE now + 1
                    [] OTHER ->
                         UNCHANGED <<orders, now>>
    /\ UNCHANGED <<build, messages, calls>>
    /\ UNCHANGED hookvars

\* the fulfillment payloads the shop delivers
Fulfillments ==
    { [shipPhone |-> <<"9", "8", "7", "6", "5", "4", "3", "2", "1", "0">>, sig |-> "valid"],
      [shipPhone |-> <<>>, sig |-> "valid"],
      [shipPhone |-> <<"n", "/", "a">>, sig |-> "valid"],
      [shipPhone |-> <<"9", "8", "7", "6", "5", "4", "3", "2", "1", "0">>, sig |-> "forged"] }

\* the combined-COD generation of server.js registers no fulfillments-create route
HasFulfillmentRoute(b) == b # "yesno"

\* POST /webhooks/shopify/fulfillments-create: no store operation on any path
FulfillmentsCreate(f) ==
    /\ HasFulfillmentRoute(build)
    /\ verifyShopifyHmac(f) \in BOOLEAN
    /\ normalizePhone(f.shipPhone) \in {Null, <<>>, PhoneA}
    /\ UNCHANGED vars


\* ----------------------------------------------------- the shop's webhooks, by step
\* Spec follows what the stores hold; SpecHook follows one shop webhook call at a time
\* through verification, the store, every send to the Graph API and the answer.

\* the sender a build dispatches with
\*   langs     sendTemplateWithFallback: one send per language of the list
\*   single    sendTemplate under the configured language
\*   fallback  sendTemplate, then FALLBACK_TEMPLATE when it failed
SenderOf(b) ==
    CASE b \in {"optout", "upsert", "lazy"} -> "langs"
      [] b \in {"yesno", "codpayload"} -> "single"
      [] b = "codtext" -> "fallback"

ORDER_CONFIRMATION_TEMPLATE == "order_confirmation"
ORDER_SHIPPED_TEMPLATE == "order_update"
FALLBACK_TEMPLATE == "hello_world"
COD_TEMPLATE == "cod_confirm_v3"
COD_CONFIRM_TEMPLATE == "cod_confirm_v1"

\* the values WA_TEMPLATE_LANG is started with ("" = set but empty)
ConfiguredLangs == {"en", "en_US", "hi", ""}

\* [...].filter(Boolean)
filterBoolean(s) == SelectSeq(s, LAMBDA x : x # "")

\* Array.from(new Set(s)): the first occurrence of each element, in order
RECURSIVE ArrayFromSet(_)
ArrayFromSet(s) ==
    IF s = <<>> THEN <<>>
    ELSE LET front == ArrayFromSet(SubSeq(s, 1, Len(s) - 1))
             last == s[Len(s)]
         IN  IF \E k \in DOMAIN front : front[k] = last THEN front
             ELSE Append(front, last)

\* langs with every language kept, repeated or not
langsRepeated(cfg) == filterBoolean(<<cfg, "en_US", "en">>)

\* const langs = Array.from(new Set([WA_TEMPLATE_LANG, 'en_US', 'en'].filter(Boolean)))
langs(cfg) == ArrayFromSet(filterBoolean(<<cfg, "en_US", "en">>))

txt_does_not_exist == <<"d", "o", "e", "s", " ", "n", "o", "t", " ", "e", "x", "i", "s", "t">>

\* what one axios.post to the Graph API comes back with: code 0 = delivered,
\* code -1 = no response at all (e.response undefined)
Delivered == [code |-> 0, details |-> <<>>]
SendOutcomes ==
    { Delivered,
      [code |-> 132001, details |-> <<"d", "o", "e", "s", " ", "n", "o", "t", " ", "e", "x", "i", "s", "t", " ", "i", "n", " ", "h", "i">>],
      [code |-> 132001, details |-> <<"D", "o", "e", "s", " ", "N", "o", "t", " ", "E", "x", "i", "s", "t">>],
      [code |-> 132001, details |-> <<>>],
      [code |-> 132000, details |-> <<"d", "o", "e", "s", " ", "n", "o", "t", " ", "m", "a", "t", "c", "h">>],
      [code |-> 131026, details |-> <<"d", "o", "e", "s", " ", "n", "o", "t", " ", "e", "x", "i", "s", "t">>],
      [code |-> -1, details |-> <<>>] }

\* the test that lets the loop go on, with the details left out of it
isMissingByCode(e) == e.code = 132001

\* code === 132001 && /does not exist/i.test(details || '')
isMissing(e) ==
    /\ e.code = 132001
    /\ includes(toLowerCase(e.details), txt_does_not_exist)

\* array.join(sep)
RECURSIVE join(_, _)
join(ss, sep) ==
    IF ss = <<>> THEN <<>>
    ELSE IF Len(ss) = 1 THEN ss[1]
    ELSE ss[1] \o sep \o join(Tail(ss), sep)

\* isCODOrder that reads the gateway names as they are written, without toLowerCase
isCODOrderCaseSensitive(order) ==
    LET gateways == join(order.gateways, <<" ">>)
        terms == IF "terms" \in DOMAIN order THEN toLowerCase(order.terms) ELSE <<>>
        tags == IF "tags" \in DOMAIN order THEN toLowerCase(order.tags) ELSE <<>>
        fs == toLowerCase(order.fs)
    IN  \/ includes(gateways, txt_cod) \/ includes(gateways, txt_cash_on_delivery)
        \/ includes(terms, txt_cod) \/ includes(terms, txt_cash_on_delivery)
        \/ includes(tags, txt_cod)
        \/ (fs = txt_pending /\ gateways = <<>>)

\* isCODOrder of the combined-COD generation (a field the payload lacks reads as '')
isCODOrder(order) ==
    LET gateways == toLowerCase(join(order.gateways, <<" ">>))
        terms == IF "terms" \in DOMAIN order THEN toLowerCase(order.terms) ELSE <<>>
        tags == IF "tags" \in DOMAIN order THEN toLowerCase(order.tags) ELSE <<>>
        fs == toLowerCase(order.fs)
    IN  \/ includes(gateways, txt_cod) \/ includes(gateways, txt_cash_on_delivery)
        \/ includes(terms, txt_cod) \/ includes(terms, txt_cash_on_delivery)
        \/ includes(tags, txt_cod)
        \/ (fs = txt_pending /\ gateways = <<>>)

\* string.slice(0, n)
slice(s, n) == SubSeq(s, 1, IF Len(s) < n THEN Len(s) ELSE n)

\* (o.line_items || []).map(li => `${li.title} x${li.quantity}`).join(', ').slice(0, 900)
ItemsSummary(o) ==
    slice(join([k \in DOMAIN o.lineItems |->
                   o.lineItems[k].title \o <<" ", "x">> \o String(o.lineItems[k].quantity)],
               <<",", " ">>),
          900)

\* orders-create that sends the order confirmation whatever the order
OrderTemplateUnclassified(b, o) == ORDER_CONFIRMATION_TEMPLATE

\* the template orders-create sends first
OrderTemplate(b, o) ==
    CASE b = "yesno" /\ isCODOrder(o) -> COD_TEMPLATE
      [] b = "codpayload" /\ codLikely(o) -> COD_CONFIRM_TEMPLATE
      [] OTHER -> ORDER_CONFIRMATION_TEMPLATE

\* the body parameters of a send, by the fields they are taken from, in order
BodyFields(b, kind, o) ==
    CASE kind = "fulfillment" -> <<"name", "orderId", "brand">>
      [] b = "yesno" /\ isCODOrder(o) -> <<"name", "brand", "orderId", "total", "items">>
      [] b = "codpayload" /\ codLikely(o) -> <<"name", "orderId", "brand">>
      [] OTHER -> <<"name", "orderId", "brand", "total", "items">>

\* what a send carries in its body component: the fields, and the item summary
SendBody(fields, items) == [fields |-> fields, items |-> items]

\* a console line: kind "attempt" for the line written before axios.post, "error"
\* for console.error, "info" for the line after a delivered fallback; lang "none"
\* when the line does not name a language
LogLine(kind, template, lang) == [kind |-> kind, template |-> template, lang |-> lang]

\* the line a sender writes before the post: sendTemplateWithFallback logs
\* { template, lang, to }, sendTemplate logs { to, template, components }
AttemptLine(sender, template, lang) ==
    LogLine("attempt", template, IF sender = "langs" THEN lang ELSE "none")

\* the lines one send of a handler leaves: the attempt, then what its catch blocks log
SendLines(sender, kind, template, lang, out) ==
    <<AttemptLine(sender, template, lang)>>
    \o (IF out # Delivered /\ sender = "langs"
        THEN <<LogLine("error", "none", lang)>> ELSE <<>>)
    \o (IF out # Delivered /\ sender = "fallback" /\ kind = "order"
        THEN <<LogLine("error", "none", "none")>> ELSE <<>>)

\* req: the request; tries: the sends made for it, in order; body: what each of them
\* carried; log: the console lines of the call; i: the place in langs;
\* err: the error the handler's catch received; resp: the answer sent, "none" while
\* there is none
NoRequest == [sig |-> "none"]
NoError == [kind |-> "none"]
StoreError == [kind |-> "store"]
HookIdle ==
    [pc |-> "idle", kind |-> "none", req |-> NoRequest, tries |-> <<>>, body |-> <<>>,
     log |-> <<>>, i |-> 0, err |-> NoError, resp |-> "none"]

Try(template, lang, params, out) ==
    [template |-> template, lang |-> lang, params |-> params, out |-> out]

\* the language and template of the send the handler is about to make
HookLang == IF SenderOf(build) = "langs" THEN langs(env.WA_TEMPLATE_LANG)[hook.i]
            ELSE env.WA_TEMPLATE_LANG
HookTemplate == IF hook.kind = "order" THEN OrderTemplate(build, hook.req)
                ELSE ORDER_SHIPPED_TEMPLATE
HookBody ==
    LET fields == BodyFields(build, hook.kind, hook.req)
    IN  SendBody(fields,
                 IF \E k \in DOMAIN fields : fields[k] = "items"
                 THEN ItemsSummary(hook.req) ELSE <<>>)

\* a dispatcher whose loop lacks the return after a delivered send
AfterSendNoReturn(sender, h, n, kind, out) ==
    CASE out = Delivered /\ sender = "langs" /\ h.i < n -> [h EXCEPT !.i = @ + 1]
      [] out = Delivered -> [h EXCEPT !.pc = "respond"]
      [] sender = "langs" /\ isMissing(out) /\ h.i < n -> [h EXCEPT !.i = @ + 1]
      [] sender = "fallback" /\ kind = "order" -> [h EXCEPT !.pc = "fallback", !.err = out]
      [] OTHER -> [h EXCEPT !.pc = "respond", !.err = out]

\* a dispatcher that forgets lastErr and throws a new Error when the list is used up
AfterSendGenericError(sender, h, n, kind, out) ==
    CASE out = Delivered -> [h EXCEPT !.pc = "respond"]
      [] sender = "langs" /\ isMissing(out) /\ h.i < n -> [h EXCEPT !.i = @ + 1]
      [] sender = "langs" /\ isMissing(out) ->
            [h EXCEPT !.pc = "respond", !.err = [kind |-> "All language attempts failed"]]
      [] sender = "fallback" /\ kind = "order" -> [h EXCEPT !.pc = "fallback", !.err = out]
      [] OTHER -> [h EXCEPT !.pc = "respond", !.err = out]

\* where one send leaves the call: h after the send, n the length of langs
AfterSend(sender, h, n, kind, out) ==
    CASE out = Delivered -> [h EXCEPT !.pc = "respond"]
      [] sender = "langs" /\ isMissing(out) /\ h.i < n -> [h EXCEPT !.i = @ + 1]
      [] sender = "fallback" /\ kind = "order" -> [h EXCEPT !.pc = "fallback", !.err = out]
      [] OTHER -> [h EXCEPT !.pc = "respond", !.err = out]

\* the handlers without their  if (!to) return res.send('No phone')
HookReceiveWithoutPhoneTest(kind, req) ==
    /\ hook.pc \in {"idle", "done"}
    /\ kind = "order" => Len(orders) < MaxOrders
    /\ kind = "fulfillment" => HasFulfillmentRoute(build)
    /\ LET h == [HookIdle EXCEPT !.kind = kind, !.req = req]
       IN  hook' = IF ~verifyShopifyHmac(req)
                   THEN [h EXCEPT !.pc = "done", !.resp = "401 Unauthorized"]
                   ELSE [h EXCEPT !.pc = IF kind = "order" THEN "add" ELSE "send",
                                  !.i = 1]
    /\ UNCHANGED <<build, db, orders, messages, now, calls, env, fn, conn, admin>>

\* POST /webhooks/shopify/orders-create or fulfillments-create arrives
HookReceive(kind, req) ==
    /\ hook.pc \in {"idle", "done"}
    /\ kind = "order" => Len(orders) < MaxOrders
    /\ kind = "fulfillment" => HasFulfillmentRoute(build)
    /\ LET to == IF kind = "order" THEN normalizePhone(PayloadPhone(req))
                 ELSE normalizePhone(req.shipPhone)
           h == [HookIdle EXCEPT !.kind = kind, !.req = req]
       IN  hook' = IF ~verifyShopifyHmac(req)
                   THEN [h EXCEPT !.pc = "done", !.resp = "401 Unauthorized"]
                   ELSE IF to \in {Null, <<>>}
                   THEN [h EXCEPT !.pc = "done", !.resp = "No phone"]
                   ELSE [h EXCEPT !.pc = IF kind = "order" THEN "add" ELSE "send",
                                  !.i = 1]
    /\ UNCHANGED <<build, db, orders, messages, now, calls, env, fn, conn, admin>>

\* await store.addOrder(...): outside every try, a rejection ends the handler unanswered
HookAddOrder ==
    /\ hook.pc = "add"
    /\ \E out \in Outcomes :
          /\ db' = DbAfter(out)
          /\ CASE out = "ok" ->
                    /\ orders' = addOrder(StoreOf(build), orders,
                                          OrderDoc(build, hook.req), now + 1)
                    /\ now' = IF StoreOf(build) = "upsert" THEN now ELSE now + 1
                    /\ hook' = [hook EXCEPT !.pc = "send"]
               [] out = "skip" ->
                    /\ hook' = [hook EXCEPT !.pc = "send"]
                    /\ UNCHANGED <<orders, now>>
               [] OTHER ->
                    /\ hook' = [hook EXCEPT !.pc = "done", !.err = StoreError]
                    /\ UNCHANGED <<orders, now>>
    /\ UNCHANGED <<build, messages, calls, env, fn, conn, admin>>

\* one axios.post of the template, with the body parameters
HookSend ==
    /\ hook.pc = "send"
    /\ \E out \in SendOutcomes :
          hook' = AfterSend(SenderOf(build),
                            [hook EXCEPT !.tries = Append(@, Try(HookTemplate, HookLang,
                                                                  TRUE, out)),
                                         !.body = Append(@, HookBody),
                                         !.log = @ \o SendLines(SenderOf(build), hook.kind,
                                                                HookTemplate, HookLang, out)],
                            Len(langs(env.WA_TEMPLATE_LANG)), hook.kind, out)
    /\ UNCHANGED <<build, db, orders, messages, now, calls, env, fn, conn, admin>>

\* await sendTemplate({ to, template: FALLBACK_TEMPLATE }): its failure is logged
HookFallback ==
    /\ hook.pc = "fallback"
    /\ \E out \in SendOutcomes :
          hook' = [hook EXCEPT !.pc = "respond",
                               !.tries = Append(@, Try(FALLBACK_TEMPLATE,
                                                       env.WA_TEMPLATE_LANG, FALSE, out)),
                               !.body = Append(@, SendBody(<<>>, <<>>)),
                               !.log = @ \o <<AttemptLine("fallback", FALLBACK_TEMPLATE,
                                                          env.WA_TEMPLATE_LANG),
                                              LogLine(IF out = Delivered THEN "info"
                                                      ELSE "error", "none", "none")>>]
    /\ UNCHANGED <<build, db, orders, messages, now, calls, env, fn, conn, admin>>

\* res.send('ok')
HookRespond ==
    /\ hook.pc = "respond"
    /\ hook' = [hook EXCEPT !.pc = "done", !.resp = "ok",
                            !.log = IF hook.err # NoError
                                       /\ ~(SenderOf(build) = "fallback" /\ hook.kind = "order")
                                    THEN Append(@, LogLine("error", "none", "none"))
                                    ELSE @]
    /\ UNCHANGED <<build, db, orders, messages, now, calls, env, fn, conn, admin>>

\* ------------------------------------------------- the helper functions, by call
\* SpecFn follows one call of a helper function: the argument is drawn at the start,
\* the call writes the result.

\* the texts a customer may reply with: the words of the two lists, near misses and
\* phrases holding a word, each in three casings and paddings, typed or as a button
ReplyWords ==
    YesWords \cup NoWords \cup
    { <<>>, <<"m", "a", "y", "b", "e">>, <<"y", "e", "s", " ", "p", "l", "e", "a", "s", "e">>,
      <<"n", "o", "p", "e">>, <<"o", "k", "!">>, <<"y", "e", "s", "\n", "n", "o">>,
      <<"n", "o", "t", " ", "o", "k">>, <<"h", "i">>, txt_confirm_cod, txt_cancel_order }

Capitalize(w) == IF w = <<>> THEN w ELSE <<UpperChar(Head(w))>> \o Tail(w)

Casings(w) == {w, toUpperCase(w), Capitalize(w)}
Paddings(w) == {w, <<" ">> \o w, w \o <<" ", "\n">>}

ReplyTexts == UNION {UNION {Paddings(v) : v \in Casings(w)} : w \in ReplyWords}

\* op: the function called; text, via: a reply and how it came; done: the call has
\* returned; kind: the branch the inbound handler took for the reply; patch: what
\* that branch hands to updateLatestOrderByPhone; raw: a phone as a payload holds
\* it; phone: what normalizePhone returned for it; order: the payment fields of an
\* order payload; cod: what the payment test returned for it
PaymentFields(gateways, gateway, tags, terms, fs) ==
    [gateways |-> gateways, gateway |-> gateway, tags |-> tags, terms |-> terms, fs |-> fs]

FnIdle ==
    [op |-> "none", text |-> <<>>, via |-> "text", done |-> FALSE, kind |-> "none",
     patch |-> Patch("", Null), raw |-> <<>>, phone |-> <<>>,
     order |-> PaymentFields(<<>>, <<>>, <<>>, <<>>, <<>>), cod |-> FALSE]

txt_razorpay == <<"r", "a", "z", "o", "r", "p", "a", "y">>
txt_Cash_on_Delivery ==
    <<"C", "a", "s", "h", " ", "o", "n", " ", "D", "e", "l", "i", "v", "e", "r", "y">>

\* payment_gateway_names, gateway, tags, payment_terms.payment_terms_name and
\* financial_status as order payloads hold them (<<>>: absent or empty)
GatewayNames ==
    { <<>>, <<txt_Cash_on_Delivery>>, <<toUpperCase(txt_Cash_on_Delivery)>>,
      <<txt_razorpay>>, <<txt_razorpay, <<"C", "O", "D">> >>,
      << <<"C", "a", "s", "h">> >>, << <<"g", "i", "f", "t", "_", "c", "a", "r", "d">> >> }
GatewayTexts == { <<>>, txt_razorpay, <<"C", "O", "D">>, <<"c", "a", "s", "h">> }
TagTexts == { <<>>, <<"C", "O", "D">>, <<"v", "i", "p">> }
TermsTexts == { <<>>, txt_Cash_on_Delivery, <<"N", "e", "t", " ", "7">> }
FinancialStatuses == { <<"p", "e", "n", "d", "i", "n", "g">>, <<"p", "a", "i", "d">>,
                       <<"P", "e", "n", "d", "i", "n", "g">> }

PaymentInputs ==
    {PaymentFields(gs, g, tg, tm, fs) :
        gs \in GatewayNames, g \in GatewayTexts, tg \in TagTexts, tm \in TermsTexts,
        fs \in FinancialStatuses}

\* the generations that tell COD orders from prepaid ones
Classifying == {"yesno", "codpayload"}

\* the phones a payload may hold (Null: the field is absent)
RawPhones ==
    { Null, <<>>,
      <<"9", "8", "7", "6", "5", "4", "3", "2", "1", "0">>,
      <<"0", "9", "8", "7", "6", "5", "4", "3", "2", "1", "0">>,
      <<"9", "1", "9", "8", "7", "6", "5", "4", "3", "2", "1", "0">>,
      <<"+", "9", "1", " ", "9", "8", "7", "6", "5", "-", "4", "3", "2", "1", "0">>,
      <<"(", "9", "8", "7", ")", " ", "6", "5", "4", "-", "3", "2", "1", "0">>,
      <<"0", "9", "8", "7", "6", " ", "5", "4", "3", "2", "1", "0">>,
      <<"1", "9", "8", "7", "6", "5", "4", "3", "2", "1", "0">>,
      <<"0", "0", "9", "8", "7", "6", "5", "4", "3", "2", "1", "0">>,
      <<"0", "9", "8", "7", "6", "5", "4", "3", "2", "1">>,
      <<"4", "3", "2", "1", "0">>,
      <<"0">>,
      <<"n", "/", "a">> }

\* the message that carries a reply text, typed or as a quick-reply button
ReplyMsg(text, via) ==
    IF via = "button" THEN Msg(PhoneA, <<>>, text, <<>>, "button", "m")
    ELSE Msg(PhoneA, text, <<>>, <<>>, "text", "m")

\* the inbound handler classifies one reply
Classify ==
    /\ fn.op = "classify"
    /\ ~fn.done
    /\ fn' = [fn EXCEPT !.done = TRUE,
                        !.kind = ReplyKind(build, ReplyMsg(fn.text, fn.via)),
                        !.patch = ReplyPatch(build, ReplyMsg(fn.text, fn.via))]
    /\ UNCHANGED <<build, db, orders, messages, now, calls, hook, env, conn, admin>>

\* normalizePhone(raw) is called
Normalize ==
    /\ fn.op = "normalize"
    /\ ~fn.done
    /\ fn' = [fn EXCEPT !.done = TRUE, !.phone = normalizePhone(fn.raw)]
    /\ UNCHANGED <<build, db, orders, messages, now, calls, hook, env, conn, admin>>

\* orders-create tests the order for COD: isCODOrder(order), or codLikely
ClassifyPayment ==
    /\ fn.op = "payment"
    /\ ~fn.done
    /\ build \in Classifying
    /\ fn' = [fn EXCEPT !.done = TRUE,
                        !.cod = IF build = "codpayload" THEN codLikely(fn.order)
                                ELSE isCODOrder(fn.order)]
    /\ UNCHANGED <<build, db, orders, messages, now, calls, hook, env, conn, admin>>

\* ------------------------------------------------- the store's connection
\* the store operations followed from the call to the collection
MaxOps == 3
StoreOps == 1..MaxOps
OpNames == {"addOrder", "addMessage", "updateLatestOrderByPhone"}

NoErr == [what |-> "none", attempt |-> 0]
\* new Error('MONGODB_URI is not set')
UnsetError == [what |-> "unset", attempt |-> 0]
\* what client.connect() of the k-th MongoClient rejected with
ConnectError(k) == [what |-> "connect", attempt |-> k]
\* orders.updateOne / messages.insertOne on an undefined collection
TypeError == [what |-> "type", attempt |-> 0]
\* new Error('DB not ready')
NotReady == [what |-> "notready", attempt |-> 0]

\* pc: "idle", "wait" (at an await that a connection settles) or "done"; att: the
\* attempt the operation opened; cols: whether it found the collections assigned
OpIdle == [pc |-> "idle", name |-> "none", res |-> "none", err |-> NoErr, att |-> 0,
           cols |-> FALSE]

\* new MongoClient(...) followed by client.connect(), not yet settled
Attempt(by) == [by |-> by, st |-> "pending"]

\* the module's variables before require()
ConnIdle == [uri |-> TRUE, client |-> FALSE, db |-> FALSE, cols |-> FALSE,
             initError |-> NoErr, attempts |-> <<>>, ops |-> [o \in StoreOps |-> OpIdle]]

\* the module's variables once require() and the server's boot have run: store.js
\* starts initPromise, the upserting store calls init(), the indexed store is
\* initialised by app.listen, the lazily connecting store waits for an operation
Loaded(st, uri) ==
    CASE st = "store" /\ ~uri ->
            [ConnIdle EXCEPT !.uri = FALSE, !.initError = UnsetError]
      [] st = "lazy" -> [ConnIdle EXCEPT !.uri = uri]
      [] OTHER -> [ConnIdle EXCEPT !.client = TRUE, !.attempts = <<Attempt(0)>>]

Finished(op, res, err, cols) ==
    [op EXCEPT !.pc = "done", !.res = res, !.err = err, !.cols = cols]

\* the operation reaches its collection and runs
Ran(op) == Finished(op, "ok", NoErr, TRUE)

\* init() of the upserting store, then the line after `await init()`
initUpsert(c, o, op) ==
    IF ~c.client
    THEN [c EXCEPT !.client = TRUE,
                   !.attempts = Append(@, Attempt(o)),
                   !.ops[o] = [op EXCEPT !.pc = "wait", !.att = Len(c.attempts) + 1]]
    ELSE [c EXCEPT !.ops[o] = IF c.cols THEN Ran(op)
                              ELSE Finished(op, "throw", TypeError, FALSE)]

\* getDb() of store.js up to `await initPromise`
getDb(c, o, op) ==
    IF c.db THEN [c EXCEPT !.ops[o] = Ran(op)]
    ELSE [c EXCEPT !.ops[o] = [op EXCEPT !.pc = "wait"]]

\* ensure(fn) of the indexed store
ensure(c, o, op) ==
    [c EXCEPT !.ops[o] = IF c.cols THEN Ran(op)
                         ELSE Finished(op, "throw", NotReady, FALSE)]

\* ready() of the lazily connecting store up to `await client.connect()`
ready(c, o, op) ==
    IF c.db THEN [c EXCEPT !.ops[o] = Ran(op)]
    ELSE IF ~c.uri THEN [c EXCEPT !.ops[o] = Finished(op, "skip", NoErr, FALSE)]
    ELSE [c EXCEPT !.client = TRUE,
                   !.attempts = Append(@, Attempt(o)),
                   !.ops[o] = [op EXCEPT !.pc = "wait", !.att = Len(c.attempts) + 1]]

\* a store operation is called and runs to its first await that has to wait
Start(o, name) ==
    /\ conn.ops[o].pc = "idle"
    /\ \A k \in 1..(o - 1) : conn.ops[k].pc # "idle"
    /\ LET op == [OpIdle EXCEPT !.name = name]
       IN  conn' = CASE StoreOf(build) = "store" -> getDb(conn, o, op)
                     [] StoreOf(build) = "indexed" -> ensure(conn, o, op)
                     [] StoreOf(build) = "upsert" -> initUpsert(conn, o, op)
                     [] OTHER -> ready(conn, o, op)
    /\ UNCHANGED <<build, db, orders, messages, now, calls, hook, env, fn, admin>>

\* the lines after `await client.connect()`, and the catch around them
Connected(st, c, k, out) ==
    LET by == c.attempts[k].by
        c1 == [c EXCEPT !.attempts[k].st = out]
        c2 == IF out = "failed"
              THEN IF st = "store" THEN [c1 EXCEPT !.initError = ConnectError(k)] ELSE c1
              ELSE IF st = "store" THEN [c1 EXCEPT !.db = TRUE]
              ELSE [c1 EXCEPT !.db = TRUE, !.cols = TRUE]
    IN  IF by = 0 THEN c2
        ELSE [c2 EXCEPT !.ops[by] =
                 IF out = "ok" THEN Ran(@)
                 ELSE IF st = "lazy" THEN Finished(@, "skip", NoErr, FALSE)
                 ELSE Finished(@, "throw", ConnectError(k), FALSE)]

\* client.connect() of one MongoClient resolves or rejects
Settle(k, out) ==
    /\ k \in DOMAIN conn.attempts
    /\ conn.attempts[k].st = "pending"
    /\ conn' = Connected(StoreOf(build), conn, k, out)
    /\ UNCHANGED <<build, db, orders, messages, now, calls, hook, env, fn, admin>>

\* getDb() of store.js after `await initPromise`
Wake(o) ==
    /\ conn.ops[o].pc = "wait"
    /\ conn.ops[o].att = 0
    /\ conn.db \/ conn.initError # NoErr
    /\ conn' = [conn EXCEPT !.ops[o] =
                  IF conn.db THEN Ran(@)
                  ELSE Finished(@, "throw", conn.initError, FALSE)]
    /\ UNCHANGED <<build, db, orders, messages, now, calls, hook, env, fn, admin>>

\* --------------------------------------------------------- the admin broadcast
\*   keyed   server.js: BROADCAST_KEY, audience read from the store
\*   listed  the header-image generation: fixed key, audience listed in the query
\*   none    no GET /admin/broadcast route
BroadcastOf(b) ==
    CASE b = "optout" -> "keyed"
      [] b \in {"upsert", "lazy"} -> "listed"
      [] OTHER -> "none"

txt_stop_upper == <<"S", "T", "O", "P", " ">>
txt_unsubscribe == <<"u", "n", "s", "u", "b", "s", "c", "r", "i", "b", "e">>
txt_optout == <<"o", "p", "t", "o", "u", "t">>
txt_opt == <<"o", "p", "t">>
txt_out == <<"o", "u", "t">>

\* /^(stop|unsubscribe|opt\s?out|cancel)$/i on the trimmed, lower-cased text
isOptOutText(txt) ==
    LET t == toLowerCase(trim(txt))
    IN  \/ t \in {txt_stop, txt_unsubscribe, txt_optout, txt_cancel}
        \/ /\ Len(t) = 7
           /\ SubSeq(t, 1, 3) = txt_opt
           /\ IsSpace(t[4])
           /\ SubSeq(t, 5, 7) = txt_out

\* String.prototype.split on a one-character separator
RECURSIVE split(_, _)
split(s, sep) ==
    IF \A k \in DOMAIN s : s[k] # sep THEN <<s>>
    ELSE LET k == CHOOSE k \in DOMAIN s : s[k] = sep /\ \A j \in 1..(k - 1) : s[j] # sep
         IN  <<SubSeq(s, 1, k - 1)>> \o split(SubSeq(s, k + 1, Len(s)), sep)

\* String(to).split(',').map(s => s.trim()).filter(Boolean)
ListedAudience(to) ==
    LET parts == split(to, ",")
    IN  SelectSeq([k \in DOMAIN parts |-> trim(parts[k])], LAMBDA x : x # <<>>)

\* the query of GET /admin/broadcast; "" stands for an absent parameter
Query(key, template, to, csv, dry) ==
    [key |-> key, template |-> template, to |-> to, csv |-> csv, dry |-> dry]

comma == <<",">>

Queries ==
    { Query(key, template, to, csv, dry) :
        key \in {"", "covermeup123", "s3cret"},
        template \in {"", "new_drop_offer"},
        to \in {<<>>, PhoneA, PhoneA \o comma \o <<" ">> \o PhoneB,
                PhoneA \o comma \o PhoneA, PhoneA \o comma \o SubSeq(PhoneA, 3, 12)},
        csv \in {"", "1"},
        dry \in {"", "1"} }

AdminIdle == [pc |-> "idle", BROADCAST_KEY |-> "", req |-> Query("", "", <<>>, "", ""),
              audience |-> <<>>, i |-> 0, results |-> <<>>, status |-> 0,
              sent |-> 0, failed |-> 0, total |-> 0]

\* the key check of the route
AuthorizedAnyKey(b, cfg, key) == TRUE

Authorized(b, cfg, key) ==
    IF BroadcastOf(b) = "keyed" THEN cfg # "" /\ key = cfg
    ELSE key = "covermeup123"

\* the dry-run test of the route
IsDry(q) == q.dry = "1"

Answered(a, q, status) == [a EXCEPT !.pc = "done", !.req = q, !.status = status]

\* the keyed route up to its first await: store.getDb() of store.js is an async
\* function, db is a promise and db.collection('orders') throws a TypeError
BroadcastKeyed(a, q) ==
    IF ~Authorized("optout", a.BROADCAST_KEY, q.key) THEN Answered(a, q, 401)
    ELSE Answered(a, q, 500)

\* the listed route up to its send loop: no store of the repository has
\* listAudiencePhones, and csv=1 ends in the catch
BroadcastListed(b, a, q) ==
    IF ~Authorized(b, a.BROADCAST_KEY, q.key) THEN Answered(a, q, 403)
    ELSE IF q.template = "" THEN Answered(a, q, 400)
    ELSE IF q.csv = "1" THEN Answered(a, q, 500)
    ELSE IF q.to = <<>> THEN Answered(a, q, 400)
    ELSE IF IsDry(q)
    THEN [Answered(a, q, 200) EXCEPT !.audience = ListedAudience(q.to)]
    ELSE [a EXCEPT !.pc = "send", !.req = q, !.audience = ListedAudience(q.to), !.i = 1]

\* GET /admin/broadcast arrives
AdminReceive(q) ==
    /\ admin.pc = "idle"
    /\ BroadcastOf(build) # "none"
    /\ admin' = IF BroadcastOf(build) = "keyed" THEN BroadcastKeyed(admin, q)
                ELSE BroadcastListed(build, admin, q)
    /\ UNCHANGED <<build, db, orders, messages, now, calls, hook, env, fn, conn>>

\* one round of `for (const msisdn of audience)`: sendTemplate resolves or rejects
AdminSend(out) ==
    /\ admin.pc = "send"
    /\ admin.i <= Len(admin.audience)
    /\ admin' = [admin EXCEPT
          !.results = Append(@, [to |-> admin.audience[admin.i],
                                 ok |-> out = Delivered]),
          !.i = @ + 1]
    /\ UNCHANGED <<build, db, orders, messages, now, calls, hook, env, fn, conn>>

\* res.json({ ok: true, template, sent, failed, total: results.length, results })
AdminRespond ==
    /\ admin.pc = "send"
    /\ admin.i > Len(admin.audience)
    /\ LET sent == Len(SelectSeq(admin.results, LAMBDA r : r.ok))
       IN  admin' = [admin EXCEPT !.pc = "done", !.status = 200, !.sent = sent,
                                  !.failed = Len(admin.results) - sent,
                                  !.total = Len(admin.results)]
    /\ UNCHANGED <<build, db, orders, messages, now, calls, hook, env, fn, conn>>

\* axios.post resolves, or rejects with a network error
AdminOutcomes == {Delivered, [code |-> -1, details |-> <<>>]}

\* the inbound batches that meet the broadcast
AdminBatches ==
    { <<Msg(PhoneA, txt_stop, <<>>, <<>>, "text", "m6")>>,
      <<Msg(PhoneA, <<"h", "i">>, <<>>, <<>>, "text", "m3")>>,
      <<Msg(PhoneB, txt_stop_upper, <<>>, <<>>, "text", "m7")>> }

\* ------------------------------------------------------------ specification
Init ==
    /\ build \in Builds
    /\ db \in (IF StoreOf(build) = "lazy" THEN {"none"} ELSE {"up", "failed"})
    /\ orders = <<>>
    /\ messages = <<>>
    /\ now = 0
    /\ calls = [c \in Calls |-> Idle]
    /\ hook = HookIdle
    /\ env = [WA_TEMPLATE_LANG |-> "en_US"]
    /\ fn = FnIdle
    /\ conn = ConnIdle
    /\ admin = AdminIdle

Next ==
    \/ \E o \in OrderPayloads : OrdersCreate(o)
    \/ \E f \in Fulfillments : FulfillmentsCreate(f)
    \/ \E c \in Calls, batch \in Batches : Receive(c, batch)
    \/ \E c \in Calls : SaveMessage(c)
    \/ \E c \in Calls : FindPending(c)
    \/ \E c \in Calls : SetStatus(c)
    \/ \E c \in Calls : UpdateLatest(c)

Spec == Init /\ [][Next]_vars

InitHook ==
    /\ build \in Builds
    /\ db \in (IF StoreOf(build) = "lazy" THEN {"none"} ELSE {"up", "failed"})
    /\ orders = <<>>
    /\ messages = <<>>
    /\ now = 0
    /\ calls = [c \in Calls |-> Idle]
    /\ hook = HookIdle
    /\ env \in [WA_TEMPLATE_LANG : ConfiguredLangs]
    /\ fn = FnIdle
    /\ conn = ConnIdle
    /\ admin = AdminIdle

NextHook ==
    \/ \E o \in OrderPayloads : HookReceive("order", o)
    \/ \E f \in Fulfillments : HookReceive("fulfillment", f)
    \/ HookAddOrder
    \/ HookSend
    \/ HookFallback
    \/ HookRespond

SpecHook == InitHook /\ [][NextHook]_vars

InitFn ==
    /\ build \in Builds
    /\ db = "up"
    /\ orders = <<>>
    /\ messages = <<>>
    /\ now = 0
    /\ calls = [c \in Calls |-> Idle]
    /\ hook = HookIdle
    /\ env = [WA_TEMPLATE_LANG |-> "en_US"]
    /\ fn \in {[FnIdle EXCEPT !.op = "classify", !.text = t, !.via = v] :
                  t \in ReplyTexts, v \in {"text", "button"}}
           \cup {[FnIdle EXCEPT !.op = "normalize", !.raw = r] : r \in RawPhones}
           \cup (IF build \in Classifying
                 THEN {[FnIdle EXCEPT !.op = "payment", !.order = o] : o \in PaymentInputs}
                 ELSE {})
    /\ conn = ConnIdle
    /\ admin = AdminIdle

NextFn ==
    \/ Classify
    \/ Normalize
    \/ ClassifyPayment

SpecFn == InitFn /\ [][NextFn]_vars

InitStore ==
    /\ build \in Builds
    /\ db = "none"
    /\ orders = <<>>
    /\ messages = <<>>
    /\ now = 0
    /\ calls = [c \in Calls |-> Idle]
    /\ hook = HookIdle
    /\ env = [WA_TEMPLATE_LANG |-> "en_US"]
    /\ fn = FnIdle
    /\ conn \in {Loaded(StoreOf(build), uri) :
                    uri \in IF StoreOf(build) \in {"store", "lazy"} THEN BOOLEAN
                            ELSE {TRUE}}
    /\ admin = AdminIdle

NextStore ==
    \/ \E o \in StoreOps, name \in OpNames : Start(o, name)
    \/ \E k \in 1..(MaxOps + 1), out \in {"ok", "failed"} : Settle(k, out)
    \/ \E o \in StoreOps : Wake(o)

SpecStore == InitStore /\ [][NextStore]_vars

InitAdmin ==
    /\ build \in {b \in Builds : BroadcastOf(b) # "none"}
    /\ db \in (IF StoreOf(build) = "lazy" THEN {"none"} ELSE {"up", "failed"})
    /\ orders = <<>>
    /\ messages = <<>>
    /\ now = 0
    /\ calls = [c \in Calls |-> Idle]
    /\ hook = HookIdle
    /\ env = [WA_TEMPLATE_LANG |-> "en_US"]
    /\ fn = FnIdle
    /\ conn = ConnIdle
    /\ admin \in {[AdminIdle EXCEPT !.BROADCAST_KEY = k] : k \in {"", "s3cret"}}

NextAdmin ==
    \/ \E q \in Queries : AdminReceive(q)
    \/ \E out \in AdminOutcomes : AdminSend(out)
    \/ AdminRespond
    \/ OrdersCreate(OrderCOD)
    \/ \E batch \in AdminBatches : Receive(1, batch)
    \/ SaveMessage(1)
    \/ UpdateLatest(1)

SpecAdmin == InitAdmin /\ [][NextAdmin]_vars

\* ------------------------------------------------------------------- claims
Terminal == {"confirmed", "rejected"}
Open     == {"pending", "pending_cod"}

\* the most recently created order of a phone (the collection is in creation order)
Latest(ords, phone) ==
    CHOOSE i \in ByPhone(ords, phone) : \A j \in ByPhone(ords, phone) : j <= i

\* the step is one of call c's
Moved(c) == calls'[c] # calls[c]

\* the step is call c's order update, and the store applied it
ReplyWrite(c) ==
    /\ Moved(c)
    /\ calls[c].pc \in {"upd", "set"}
    /\ orders' # orders

\* the text or, without one, the button payload the reply carried
ReplyText(b, m) == Or(Body(b, m), Payload(b, m))

msg_yes == Msg(PhoneA, <<"y", "e", "s">>, <<>>, <<>>, "text", "m1")
msg_no  == Msg(PhoneA, <<"N", "o">>, <<>>, <<>>, "text", "m2")
msg_hi  == Msg(PhoneA, <<"h", "i">>, <<>>, <<>>, "text", "m3")

\* C1: no step of an inbound-message handler takes an order that is confirmed or
\* rejected to any other status (so never back to pending or pending_cod).
C1_NoReturnToPending ==
    [][\A c \in Calls : Moved(c) =>
          \A i \in DOMAIN orders :
              orders[i].status \in Terminal => orders'[i].status \in Terminal]_vars

\* C1 witness: a confirmed order on which a later reply of another kind has acted.
C1_Witness ==
    \E i \in DOMAIN orders :
        /\ orders[i].status = "confirmed"
        /\ orders[i].lastReply = <<"h", "i">>

\* C2 as claimed: a reply never turns a confirmed order into a rejected one nor a
\* rejected order into a confirmed one.
C2_TerminalIsFinal ==
    [][\A c \in Calls : Moved(c) =>
          \A i \in DOMAIN orders :
              /\ orders[i].status = "confirmed" => orders'[i].status # "rejected"
              /\ orders[i].status = "rejected" => orders'[i].status # "confirmed"]_vars

\* C2 amended: a reply changes the status of a confirmed order only to rejected and
\* only when it classifies REJECT, and the status of a rejected order only to
\* confirmed and only when it classifies CONFIRM (the last reply wins).
C2_LastReplyWins ==
    [][\A c \in Calls : Moved(c) =>
          \A i \in DOMAIN orders :
              /\ (orders[i].status = "confirmed" /\ orders'[i].status # "confirmed") =>
                    /\ orders'[i].status = "rejected"
                    /\ ReplyKind(build, Cur(c)) = "reject"
              /\ (orders[i].status = "rejected" /\ orders'[i].status # "rejected") =>
                    /\ orders'[i].status = "confirmed"
                    /\ ReplyKind(build, Cur(c)) = "confirm"]_vars

\* C2 witness: one order, created, confirmed by "yes", then rejected by "No".
C2_Witness ==
    /\ build = "yesno"
    /\ Len(orders) = 1
    /\ orders[1].status = "rejected"
    /\ orders[1].createdAt = 1
    /\ orders[1].updatedAt = 3
    /\ calls[1].batch = <<msg_yes, msg_no>>
    /\ calls[1].pc = "done"

\* C3 as claimed: when a CONFIRM (REJECT) reply of phone P is applied while P's
\* most recently created order is pending or pending_cod, that order becomes
\* confirmed (rejected).
C3_ReplyDecidesLatest ==
    [][\A c \in Calls : ReplyWrite(c) =>
          LET m == Cur(c)
              kind == ReplyKind(build, m)
              L == Latest(orders, m.from)
          IN  (/\ kind \in {"confirm", "reject"}
               /\ ByPhone(orders, m.from) # {}
               /\ orders[L].status \in Open)
              => orders'[L].status = StatusOf(kind)]_vars

\* C4 as claimed: a reply of phone P changes no order but the most recently
\* created order of P.
C4_OnlyLatestChanges ==
    [][\A c \in Calls : Moved(c) =>
          \A i \in DOMAIN orders :
              orders'[i] # orders[i] =>
                  /\ ByPhone(orders, Cur(c).from) # {}
                  /\ i = Latest(orders, Cur(c).from)]_vars

\* C5: a reply classified OTHER changes no order's status and creates no order; the
\* one order it touches belongs to the sender and differs afterwards in lastReply
\* (the reply's text) and updatedAt only.
C5_OtherKeepsStatus ==
    [][\A c \in Calls :
          (Moved(c) /\ calls[c].pc # "idle" /\ ReplyKind(build, Cur(c)) = "other") =>
              /\ Len(orders') = Len(orders)
              /\ \A i \in DOMAIN orders :
                    /\ orders'[i].status = orders[i].status
                    /\ orders'[i] # orders[i] =>
                          /\ orders[i].phone = Cur(c).from
                          /\ orders'[i].lastReply = ReplyText(build, Cur(c))
                          /\ orders'[i].updatedAt > orders[i].updatedAt
                          /\ orders'[i] = [orders[i] EXCEPT
                                              !.lastReply = orders'[i].lastReply,
                                              !.updatedAt = orders'[i].updatedAt]]_vars

\* C5 witness: an order still open whose lastReply an OTHER reply has written.
C5_Witness ==
    \E i \in DOMAIN orders :
        /\ orders[i].status \in Open
        /\ orders[i].lastReply = <<"h", "i">>
        /\ orders[i].updatedAt > orders[i].createdAt

\* C6 as claimed: once a reply of phone P has been applied, the lastReply of P's
\* most recently created order is that reply's text (or button payload).
C6_LastReplyIsLatestText ==
    [][\A c \in Calls : ReplyWrite(c) =>
          LET m == Cur(c)
          IN  orders'[Latest(orders', m.from)].lastReply = ReplyText(build, m)]_vars

\* C7: a CONFIRM reply applied to an order that is pending, pending_cod or already
\* confirmed leaves it confirmed, the first time and on every repeat, and the
\* application raises no error; likewise REJECT and rejected.
C7_ReapplyIsIdempotent ==
    [][\A c \in Calls : ReplyWrite(c) =>
          LET kind == ReplyKind(build, Cur(c))
          IN  kind \in {"confirm", "reject"} =>
                  /\ calls'[c].res # "err"
                  /\ \A i \in DOMAIN orders :
                        (/\ orders'[i] # orders[i]
                         /\ orders[i].status \in Open \cup {StatusOf(kind)})
                        => orders'[i].status = StatusOf(kind)]_vars

\* C7 witness: one order, created, confirmed by "yes" and confirmed again by a
\* second "yes" of the same batch, the call answered without error.
C7_Witness ==
    /\ build = "yesno"
    /\ Len(orders) = 1
    /\ orders[1].status = "confirmed"
    /\ orders[1].createdAt = 1
    /\ orders[1].updatedAt = 3
    /\ calls[1].batch = <<msg_yes, msg_yes>>
    /\ calls[1].pc = "done"
    /\ calls[1].res = "ok"

\* C8 as claimed: when the order update of a reply is applied, the reply's Message
\* record is already in the messages collection.
C8_MessageBeforeMutation ==
    [][\A c \in Calls : ReplyWrite(c) =>
          \E k \in DOMAIN messages : messages[k] = MessageDoc(build, Cur(c))]_vars

\* C9 as claimed: when a call ends because an order operation failed, every
\* message of its batch has nevertheless been appended to the messages collection.
C9_LoggingSurvivesUpdateFailure ==
    \A c \in Calls :
        (calls[c].pc = "done" /\ calls[c].at \in {"find", "upd", "set"}) =>
            \A j \in DOMAIN calls[c].batch :
                \E k \in DOMAIN messages :
                    messages[k] = MessageDoc(build, calls[c].batch[j])

\* C10: no step removes or changes a Message record: the collection only grows at
\* its end.
C10_MessagesAppendOnly ==
    [][/\ Len(messages') >= Len(messages)
       /\ \A k \in DOMAIN messages : messages'[k] = messages[k]]_vars

\* C10 witness: two Message records and an order in the store, all calls answered.
C10_Witness ==
    /\ Len(messages) = 2
    /\ messages[1].from = PhoneA
    /\ Len(orders) >= 1
    /\ \A c \in Calls : calls[c].pc \in {"idle", "done"}

\* C11 as claimed: every accepted order-creation event that the store takes inserts
\* exactly one new Order record and changes no other, so the same event delivered
\* twice leaves two records.
C11_OneRecordPerEvent ==
    [][(hook.pc = "add" /\ hook'.pc = "send" /\ db' = "up") =>
          /\ Len(orders') = Len(orders) + 1
          /\ \A i \in DOMAIN orders : orders'[i] = orders[i]]_vars

\* the payment classification of an order event: the build's own where it has one,
\* isCODOrder otherwise
CodClassified(b, o) == IF b = "codpayload" THEN codLikely(o) ELSE isCODOrder(o)

\* C12 as claimed: the Order stored for an accepted event carries the normalized
\* phone ("9876543210" becomes "919876543210"); a COD-classified event is stored
\* with payment class cod and initial status pending_cod, a prepaid one with
\* initial status pending.
C12_InitialStatusByPaymentClass ==
    [][(hook.pc = "add" /\ Len(orders') = Len(orders) + 1) =>
          LET o == hook.req
              d == orders'[Len(orders')]
          IN  /\ o.phone = <<"9", "8", "7", "6", "5", "4", "3", "2", "1", "0">> =>
                    d.phone = <<"9", "1", "9", "8", "7", "6", "5", "4", "3", "2", "1", "0">>
              /\ IF CodClassified(build, o)
                 THEN d.cod /\ d.status = "pending_cod"
                 ELSE ~d.cod /\ d.status = "pending"]_vars

\* C13: in the dispatcher a failed send with code 132001 and details matching
\* 'does not exist' is followed by a send under the next language of the list, as
\* long as there is one; after any other failure the call is over at once, that
\* failure is the error the caller receives, and no further send is made.
C13_OnlyMissingContinues ==
    [][/\ (hook.pc = "send" /\ hook' # hook /\ SenderOf(build) = "langs") =>
          LET n == Len(hook'.tries)
              out == hook'.tries[n].out
              list == langs(env.WA_TEMPLATE_LANG)
              missing == /\ out.code = 132001
                         /\ includes(toLowerCase(out.details),
                                     <<"d", "o", "e", "s", " ", "n", "o", "t", " ", "e", "x", "i", "s", "t">>)
          IN  /\ n = Len(hook.tries) + 1
              /\ (missing /\ n < Len(list)) =>
                    (hook'.pc = "send" /\ hook'.i = n + 1 /\ hook'.err = NoError)
              /\ (out # Delivered /\ ~missing) =>
                    (hook'.pc = "respond" /\ hook'.err = out)
       /\ hook.pc = "respond" => hook'.tries = hook.tries]_vars

\* C13 witness: a call that went on after 'does not exist' under the first language
\* and ended on a failure of another kind under the second.
C13_Witness ==
    /\ SenderOf(build) = "langs"
    /\ hook.pc = "respond"
    /\ Len(hook.tries) = 2
    /\ hook.tries[1].out.code = 132001
    /\ hook.tries[1].lang = "hi"
    /\ hook.tries[2].lang = "en_US"
    /\ hook.tries[2].out.code = 131026
    /\ hook.err = hook.tries[2].out

\* the sends of the call that carried the fallback template, and the others
FallbackTries(h) == {k \in DOMAIN h.tries : h.tries[k].template = FALLBACK_TEMPLATE}
LanguageTries(h) == DOMAIN h.tries \ FallbackTries(h)

\* the send failed with code 132001 and details matching 'does not exist'
DoesNotExist(out) ==
    /\ out.code = 132001
    /\ includes(toLowerCase(out.details),
                <<"d", "o", "e", "s", " ", "n", "o", "t", " ", "e", "x", "i", "s", "t">>)

\* the call runs a dispatcher: sendTemplateWithFallback, or the send of orders-create
\* that is followed by FALLBACK_TEMPLATE
Dispatches(b, h) ==
    \/ SenderOf(b) = "langs"
    \/ SenderOf(b) = "fallback" /\ h.kind = "order"

\* C14 as claimed: when a dispatcher call is over, it has sent the fallback template
\* exactly once, without parameters, if every language attempt of the call failed
\* with 'does not exist', and not at all otherwise.
C14_FallbackIffAllMissing ==
    (Dispatches(build, hook) /\ hook.pc \in {"respond", "done"} /\ hook.tries # <<>>) =>
        IF \A k \in LanguageTries(hook) : DoesNotExist(hook.tries[k].out)
        THEN /\ Cardinality(FallbackTries(hook)) = 1
             /\ \A k \in FallbackTries(hook) : ~hook.tries[k].params
        ELSE FallbackTries(hook) = {}

\* [configured language, en_US, en] without its empty or repeated entries
ExpectedLangs(cfg) ==
    CASE cfg = "" -> <<"en_US", "en">>
      [] cfg = "en_US" -> <<"en_US", "en">>
      [] cfg = "en" -> <<"en", "en_US">>
      [] OTHER -> <<cfg, "en_US", "en">>

\* C15: the sends of one call of sendTemplateWithFallback follow the de-duplicated
\* list [configured language, en_US, en] in order: at most three, no language twice,
\* and none after a send that got no response.
C15_OneAttemptPerLanguage ==
    SenderOf(build) = "langs" =>
        /\ Len(hook.tries) <= 3
        /\ Len(hook.tries) <= Len(ExpectedLangs(env.WA_TEMPLATE_LANG))
        /\ \A k \in DOMAIN hook.tries :
              /\ hook.tries[k].lang = ExpectedLangs(env.WA_TEMPLATE_LANG)[k]
              /\ \A j \in DOMAIN hook.tries : j # k => hook.tries[j].lang # hook.tries[k].lang
              /\ k < Len(hook.tries) => hook.tries[k].out.code # -1

\* C15 witness: three sends, under hi, en_US and en, each answered 'does not exist'.
C15_Witness ==
    /\ SenderOf(build) = "langs"
    /\ env.WA_TEMPLATE_LANG = "hi"
    /\ hook.pc = "respond"
    /\ Len(hook.tries) = 3
    /\ hook.tries[3].lang = "en"
    /\ hook.tries[3].out.code = 132001

\* C16: a call of sendTemplateWithFallback ends at the first language whose send is
\* delivered: a delivered send is the last of the call, every send before it failed
\* with 'does not exist', and the call reports success; with the first language
\* missing and the second delivered there are exactly two sends, the second under
\* the second language of the list.
C16_SucceedsAtFirstDelivered ==
    SenderOf(build) = "langs" =>
        \A k \in DOMAIN hook.tries :
            hook.tries[k].out = Delivered =>
                /\ k = Len(hook.tries)
                /\ hook.pc \in {"respond", "done"}
                /\ hook.err = NoError
                /\ hook.tries[k].lang = ExpectedLangs(env.WA_TEMPLATE_LANG)[k]
                /\ \A j \in 1..(k - 1) : DoesNotExist(hook.tries[j].out)

\* C16 witness: list [hi, en_US, en], hi answered 'does not exist', en_US delivered,
\* the call over after exactly two sends and without an error.
C16_Witness ==
    /\ SenderOf(build) = "langs"
    /\ env.WA_TEMPLATE_LANG = "hi"
    /\ hook.pc = "done"
    /\ hook.resp = "ok"
    /\ Len(hook.tries) = 2
    /\ DoesNotExist(hook.tries[1].out)
    /\ hook.tries[2] = Try(HookTemplate, "en_US", TRUE, Delivered)
    /\ hook.err = NoError

\* the last language send of the call
LastLanguageTry(h) ==
    h.tries[CHOOSE k \in LanguageTries(h) : \A j \in LanguageTries(h) : j <= k]

\* C17: when a dispatcher call is over and every language send of it failed with
\* 'does not exist', the error the caller received is that of the last language
\* tried, a template-not-found error; a failed send of the fallback template does not
\* take its place, and the handler still answers.
C17_ExhaustionErrorSurfaces ==
    (/\ Dispatches(build, hook)
     /\ hook.pc \in {"respond", "done"}
     /\ LanguageTries(hook) # {}
     /\ \A k \in LanguageTries(hook) : DoesNotExist(hook.tries[k].out)) =>
        /\ hook.err = LastLanguageTry(hook).out
        /\ hook.err.code = 132001
        /\ hook.pc = "done" => hook.resp = "ok"

\* C17 witness: the send of orders-create answered 'does not exist', the fallback
\* template then got no response, and the handler answered with the first error kept.
C17_Witness ==
    /\ build = "codtext"
    /\ hook.pc = "done"
    /\ hook.resp = "ok"
    /\ Len(hook.tries) = 2
    /\ DoesNotExist(hook.tries[1].out)
    /\ hook.tries[2].template = "hello_world"
    /\ hook.tries[2].out.code = -1
    /\ hook.err = hook.tries[1].out

\* C18 as claimed: an order-creation or fulfillment webhook whose signature verified
\* and whose handler has ended was answered with a success acknowledgment ('ok',
\* or 'No phone'), however its dispatch went.
C18_VerifiedWebhookAcked ==
    (hook.pc = "done" /\ hook.req.sig = "valid") => hook.resp \in {"ok", "No phone"}

\* C19 as claimed: a handler in which a store operation threw has still answered
\* with a success response: orders-create after addOrder threw, the inbound handler
\* (which answers 'err' with status 200) after addMessage or an order update threw.
C19_StoreFailureStillAcked ==
    /\ (hook.pc = "done" /\ hook.err = StoreError) => hook.resp = "ok"
    /\ \A c \in Calls :
          (calls[c].pc = "done" /\ calls[c].at \in {"add", "find", "set", "upd"}) =>
              calls[c].res \in {"ok", "err"}

\* C20: a request whose signature does not match is answered 401 and ends there: no
\* order is stored or changed, no message record written, nothing sent.
C20_ForgedMutatesNothing ==
    [][(hook' # hook /\ hook'.req.sig = "forged") =>
          /\ hook'.pc = "done"
          /\ hook'.resp = "401 Unauthorized"
          /\ hook'.tries = <<>>
          /\ orders' = orders
          /\ messages' = messages
          /\ db' = db]_vars

\* C20 witness: a forged request answered 401 while the store holds an order, which
\* is as it was stored.
C20_Witness ==
    /\ hook.req.sig = "forged"
    /\ hook.pc = "done"
    /\ hook.resp = "401 Unauthorized"
    /\ hook.tries = <<>>
    /\ Len(orders) = 1
    /\ orders[1].status = "pending"

\* the phone an event carries for its handler, as the payload holds it
RawPhone(kind, req) == IF kind = "order" THEN PayloadPhone(req) ELSE req.shipPhone

\* C21: a verified order-creation or fulfillment event whose phone holds no digit is
\* answered 'No phone' (status 200) on arrival and is over with that: nothing is
\* stored, nothing is sent, and no later step of the server works on it again.
C21_NoPhoneAcceptedUnsent ==
    [][(/\ hook' # hook
        /\ hook'.req.sig = "valid"
        /\ StripNonDigits(RawPhone(hook'.kind, hook'.req)) = <<>>) =>
          /\ hook.pc \in {"idle", "done"}
          /\ hook'.pc = "done"
          /\ hook'.resp = "No phone"
          /\ hook'.tries = <<>>
          /\ hook'.err.kind = "none"
          /\ orders' = orders
          /\ db' = db]_vars

\* C21 witness: a fulfillment event whose shipping phone is "n/a", answered
\* 'No phone' with no send made, after an order had been stored.
C21_Witness ==
    /\ hook.kind = "fulfillment"
    /\ hook.req.sig = "valid"
    /\ hook.req.shipPhone = <<"n", "/", "a">>
    /\ hook.pc = "done"
    /\ hook.resp = "No phone"
    /\ hook.tries = <<>>
    /\ Len(orders) = 1

\* C22 as claimed: while orders-create dispatches (the first send and every later
\* one), the Order record of its event is in the store, and no send, failed or not,
\* removes or changes a record.
C22_RecordBeforeDispatch ==
    [][(hook.kind = "order" /\ hook.pc \in {"send", "fallback"} /\ hook' # hook) =>
          /\ \E i \in DOMAIN orders :
                /\ orders[i].id = hook.req.id
                /\ orders[i].orderId = Or(hook.req.name, String(hook.req.id))
                /\ orders[i].phone # Null
          /\ orders' = orders]_vars

\* the orders of one phone, in the order the collection holds them
OwnOrders(ords, phone) == SelectSeq(ords, LAMBDA d : d.phone = phone)

\* what the step of call c at pc may leave of the sender's orders when it is run on
\* the sender's orders alone
OwnResults(c, own) ==
    LET m == Cur(c)
    IN  CASE calls[c].pc = "upd" ->
               {own} \cup
               {updateLatestOrderByPhone(own, i, ReplyPatch(build, m), now + 1) :
                   i \in SortFirst(StoreOf(build), own, ByPhone(own, m.from))}
          [] calls[c].pc = "set" ->
               {own} \cup
               {setOrderStatusById(own, i, StatusPatch(build, m), now + 1) :
                   i \in ByOrderId(own, calls[c].ord)}
          [] OTHER -> {own}

\* C23: a step of the handler of a reply from phone A changes no order of another
\* phone and comes out as it would with the other phones' orders absent (the lookup
\* included), so replies of different phones commute; whatever the interleaving, an
\* order of the phone that only ever sent " ok " is open or confirmed with lastReply
\* unset or "ok", and never carries a status or text of the other phone's replies.
C23_DifferentPhonesDoNotContend ==
    [][\A c \in Calls : (Moved(c) /\ calls[c].pc # "idle") =>
          LET A == Cur(c).from
              own == OwnOrders(orders, A)
          IN  /\ Len(orders') = Len(orders)
              /\ \A i \in DOMAIN orders :
                    orders[i].phone # A => orders'[i] = orders[i]
              /\ OwnOrders(orders', A) \in OwnResults(c, own)
              /\ calls[c].pc = "find" =>
                    calls'[c].ord \in
                        {Null} \cup {own[i].orderId :
                                        i \in findLatestPendingCODByPhone(own, A)}
              /\ \A i \in DOMAIN orders' :
                    orders'[i].phone = <<"9", "1", "9", "8", "1", "1", "1", "2", "2", "2", "2", "2">> =>
                        /\ orders'[i].status \in {"pending", "pending_cod", "confirmed"}
                        /\ orders'[i].lastReply \in {<<"null">>, <<"o", "k">>}]_vars

\* C23 witness: the call with "yes" of 919876543210 stands between its saved message
\* and its order update while the call with " ok " of 919811122222 has run to its
\* end and confirmed that phone's order; the other phone's order is still pending.
C23_Witness ==
    /\ calls[1].pc = "upd"
    /\ calls[1].batch = <<msg_yes>>
    /\ calls[2].pc = "done"
    /\ calls[2].res = "ok"
    /\ Len(calls[2].batch) = 1
    /\ calls[2].batch[1].from = PhoneB
    /\ Len(orders) = 2
    /\ \E i, j \in DOMAIN orders :
          /\ orders[i].phone = PhoneB
          /\ orders[i].status = "confirmed"
          /\ orders[j].phone = PhoneA
          /\ orders[j].status \in {"pending", "pending_cod"}

\* no two stored orders share an orderId
UniqueOrderIds(ords) ==
    \A a, b \in DOMAIN ords : a # b => ords[a].orderId # ords[b].orderId

\* C24 as claimed: the order a reply's update writes is selected by that same store
\* operation: exactly one document changes, it is an order of the sender, and (even
\* with every orderId stored once) when the update is the one made after the
\* pending-COD lookup the order is still the pending COD order the lookup selects:
\* no other handler wrote it in between.
C24_SelectAndUpdateInOneStep ==
    [][\A c \in Calls : ReplyWrite(c) =>
          \E i \in DOMAIN orders :
              /\ orders'[i] # orders[i]
              /\ \A j \in DOMAIN orders : j # i => orders'[j] = orders[j]
              /\ orders[i].phone = Cur(c).from
              /\ (calls[c].pc = "set" /\ UniqueOrderIds(orders)) =>
                    (orders[i].cod /\ orders[i].status = "pending_cod")]_vars

\* C25 as claimed: whatever the generation and however the reply came, its trimmed,
\* lower-cased text decides the branch: one of yes, y, confirm, ok, okay, confirmed
\* is CONFIRM, one of no, n, cancel, reject, stop is REJECT, and every other text,
\* "maybe" and "yes please" among them, is OTHER (the two COD phrases are left aside
\* here).
C25_WholeStringClassifier ==
    (fn.op = "classify" /\ fn.done) =>
        LET t == toLowerCase(trim(fn.text))
        IN  t \notin {<<"c", "o", "n", "f", "i", "r", "m", " ", "c", "o", "d">>,
                      <<"c", "a", "n", "c", "e", "l", " ", "o", "r", "d", "e", "r">>} =>
               fn.kind =
                  IF t \in {<<"y", "e", "s">>, <<"y">>, <<"c", "o", "n", "f", "i", "r", "m">>,
                            <<"o", "k">>, <<"o", "k", "a", "y">>,
                            <<"c", "o", "n", "f", "i", "r", "m", "e", "d">>}
                  THEN "confirm"
                  ELSE IF t \in {<<"n", "o">>, <<"n">>, <<"c", "a", "n", "c", "e", "l">>,
                                 <<"r", "e", "j", "e", "c", "t">>, <<"s", "t", "o", "p">>}
                  THEN "reject"
                  ELSE "other"

\* C26 as claimed: a reply whose trimmed text is "Confirm COD", in any letter case,
\* takes the CONFIRM branch, which writes status confirmed to the sender's latest
\* order; "Cancel Order" takes the REJECT branch, which writes status rejected.
C26_CodPhrasesRecognised ==
    (fn.op = "classify" /\ fn.done) =>
        LET t == toLowerCase(trim(fn.text))
        IN  /\ t = <<"c", "o", "n", "f", "i", "r", "m", " ", "c", "o", "d">> =>
                  (fn.kind = "confirm" /\ fn.patch.status = "confirmed")
            /\ t = <<"c", "a", "n", "c", "e", "l", " ", "o", "r", "d", "e", "r">> =>
                  (fn.kind = "reject" /\ fn.patch.status = "rejected")

\* the digits of a text, in order
RECURSIVE DigitsOf(_)
DigitsOf(s) ==
    IF s = <<>> THEN <<>>
    ELSE IF Head(s) \in {"0", "1", "2", "3", "4", "5", "6", "7", "8", "9"}
         THEN <<Head(s)>> \o DigitsOf(Tail(s))
         ELSE DigitsOf(Tail(s))

\* C27: normalizePhone returns null for an absent or empty phone; otherwise, with d
\* the digits of the phone, 91 followed by d when d has ten digits, 91 followed by
\* the last ten when d has eleven and starts with 0, and d itself in every other
\* case.  So "9876543210", "09876543210" and "919876543210" all give
\* "919876543210".
C27_PhoneNormalizer ==
    (fn.op = "normalize" /\ fn.done) =>
        LET d == DigitsOf(fn.raw)
            p919876543210 == <<"9", "1", "9", "8", "7", "6", "5", "4", "3", "2", "1", "0">>
        IN  /\ fn.raw \in {<<>>, <<"null">>} => fn.phone = <<"null">>
            /\ fn.raw \notin {<<>>, <<"null">>} =>
                  fn.phone =
                     IF Len(d) = 10 THEN <<"9", "1">> \o d
                     ELSE IF Len(d) = 11 /\ d[1] = "0"
                          THEN <<"9", "1">> \o SubSeq(d, 2, 11)
                          ELSE d
            /\ fn.raw = <<"9", "8", "7", "6", "5", "4", "3", "2", "1", "0">> =>
                  fn.phone = p919876543210
            /\ fn.raw = <<"0", "9", "8", "7", "6", "5", "4", "3", "2", "1", "0">> =>
                  fn.phone = p919876543210
            /\ fn.raw = p919876543210 => fn.phone = p919876543210

\* C27 witness: normalizePhone has returned "919876543210" for "09876 543210".
C27_Witness ==
    /\ fn.op = "normalize"
    /\ fn.done
    /\ fn.raw = <<"0", "9", "8", "7", "6", " ", "5", "4", "3", "2", "1", "0">>
    /\ fn.phone = <<"9", "1", "9", "8", "7", "6", "5", "4", "3", "2", "1", "0">>

\* a text holds "cod" or "cash", in any letter case
HasCodToken(t) ==
    \/ includes(toLowerCase(t), <<"c", "o", "d">>)
    \/ includes(toLowerCase(t), <<"c", "a", "s", "h">>)

\* one of the gateway names is "Cash on Delivery", in any letter case
NamesCashOnDelivery(o) ==
    \E k \in DOMAIN o.gateways :
        toLowerCase(o.gateways[k]) =
            <<"c", "a", "s", "h", " ", "o", "n", " ", "d", "e", "l", "i", "v", "e", "r", "y">>

\* the order was paid through razorpay and no gateway or tags field holds a COD or
\* cash token
RazorpayPaid(o) ==
    /\ o.gateways = << <<"r", "a", "z", "o", "r", "p", "a", "y">> >>
    /\ o.gateway \in {<<>>, <<"r", "a", "z", "o", "r", "p", "a", "y">>}
    /\ o.fs = <<"p", "a", "i", "d">>
    /\ ~HasCodToken(o.tags)

DecisionList(o) ==
    LET inNames == \E k \in DOMAIN o.gateways :
                      \/ includes(toLowerCase(o.gateways[k]), <<"c", "o", "d">>)
                      \/ includes(toLowerCase(o.gateways[k]),
                                  <<"c", "a", "s", "h", " ", "o", "n", " ", "d", "e", "l", "i", "v", "e", "r", "y">>)
        inGateway == HasCodToken(o.gateway)
        inTags == includes(toLowerCase(o.tags), <<"c", "o", "d">>)
        cashLike == \/ \E k \in DOMAIN o.gateways : HasCodToken(o.gateways[k])
                    \/ HasCodToken(o.gateway)
                    \/ HasCodToken(o.tags)
    IN  IF inNames THEN TRUE
        ELSE IF inGateway THEN TRUE
        ELSE IF inTags THEN TRUE
        ELSE IF toLowerCase(o.fs) = <<"p", "e", "n", "d", "i", "n", "g">> /\ cashLike THEN TRUE
        ELSE FALSE

\* C29 as claimed: for every order without payment terms the payment test returns
\* what the decision list gives (COD token among the gateway names, else COD or cash
\* token in the gateway field, else COD token in the tags, else "pending" with a
\* cash-like signal, else prepaid): a COD tag alone gives COD, and "pending" with no
\* cash-like signal gives prepaid.
C29_DecisionList ==
    (fn.op = "payment" /\ fn.done /\ fn.order.terms = <<>>) =>
        /\ fn.cod = DecisionList(fn.order)
        /\ (/\ fn.order.tags = <<"C", "O", "D">>
            /\ fn.order.gateways = <<>>
            /\ fn.order.gateway = <<>>
            /\ fn.order.fs = <<"p", "a", "i", "d">>) => fn.cod
        /\ (/\ fn.order.fs = <<"p", "e", "n", "d", "i", "n", "g">>
            /\ fn.order.gateways = <<>>
            /\ fn.order.gateway = <<>>
            /\ fn.order.tags = <<>>) => ~fn.cod

C31_BatchInPayloadOrder ==
    [][\A c \in Calls : (Moved(c) /\ calls[c].pc # "idle") =>
          /\ calls'[c].batch = calls[c].batch
          /\ calls'[c].i \in {calls[c].i, calls[c].i + 1}
          /\ calls'[c].i = calls[c].i + 1 =>
                (calls[c].pc \in {"upd", "set"} /\ calls'[c].pc = "add")
          /\ (/\ ReplyWrite(c)
              /\ calls[c].i = 2
              /\ calls[c].batch[1].from = calls[c].batch[2].from) =>
                \E k \in DOMAIN orders :
                    /\ orders'[k] # orders[k]
                    /\ orders'[k].lastReply = ReplyText(build, Cur(c))
                    /\ ReplyKind(build, Cur(c)) = "confirm" => orders'[k].status = "confirmed"
                    /\ ReplyKind(build, Cur(c)) = "reject" => orders'[k].status = "rejected"]_vars

\* C32 as claimed: a step that belongs to no inbound-message call (an order-creation
\* or a fulfillment event) leaves every Order record that exists as it is, its status
\* in particular, also when the event delivers again an order already stored.
C32_OnlyRepliesModifyOrders ==
    [][(\A c \in Calls : ~Moved(c)) =>
          /\ Len(orders') >= Len(orders)
          /\ \A i \in DOMAIN orders :
                /\ orders'[i].status = orders[i].status
                /\ orders'[i] = orders[i]]_vars

\* C33 as claimed: no step changes the id, orderId, payment class or createdAt of an
\* Order record that exists, and every step that changes a record advances its
\* updatedAt.
C33_IdentityFixedUpdatedAtBumped ==
    [][/\ Len(orders') >= Len(orders)
       /\ \A i \in DOMAIN orders :
             /\ orders'[i].id = orders[i].id
             /\ orders'[i].orderId = orders[i].orderId
             /\ orders'[i].cod = orders[i].cod
             /\ orders'[i].createdAt = orders[i].createdAt
             /\ orders'[i] # orders[i] => orders'[i].updatedAt > orders[i].updatedAt]_vars

\* the console lines written before a post
AttemptLines(h) == SelectSeq(h.log, LAMBDA l : l.kind = "attempt")

\* C34 as claimed: the lines written before the posts of a call are as many as its
\* sends, delivered or failed, and the k-th of them names the template and the
\* language of the k-th send.
C34_AttemptLoggedWithLanguage ==
    /\ Len(AttemptLines(hook)) = Len(hook.tries)
    /\ \A k \in DOMAIN hook.tries :
          /\ AttemptLines(hook)[k].template = hook.tries[k].template
          /\ AttemptLines(hook)[k].lang = hook.tries[k].lang

\* C35 as claimed: no step of an inbound-message call adds an Order record; and when
\* the call has handled, without an error, a reply of a phone that has no order, the
\* orders are what they were and the reply's Message record is in the messages
\* collection.
C35_RepliesCreateNoOrder ==
    [][\A c \in Calls : (Moved(c) /\ calls[c].pc # "idle") =>
          /\ Len(orders') = Len(orders)
          /\ (/\ calls[c].pc = "upd"
              /\ calls'[c].res # "err"
              /\ ByPhone(orders, Cur(c).from) = {}) =>
                /\ orders' = orders
                /\ \E k \in DOMAIN messages : messages[k] = MessageDoc(build, Cur(c))]_vars

\* C36: in the store that awaits init() in every operation (the upserting store),
\* an operation that goes on after its own `await init()` finds the orders and
\* messages collections assigned, also while the connection of the module-load
\* init() is still being made.
C36_CollectionsReadyAfterInit ==
    StoreOf(build) = "upsert" =>
        \A o \in StoreOps :
            (conn.ops[o].pc = "done" /\ conn.ops[o].err.what # "connect") =>
                conn.ops[o].cols

\* C37: store.js and the lazily connecting store open at most one connection,
\* however the operations are issued, and once that attempt has failed every
\* operation that ends afterwards throws the error of that attempt.
C37_OneConnectionAttempt ==
    StoreOf(build) \in {"store", "lazy"} =>
        /\ Len(conn.attempts) <= 1
        /\ \A o \in StoreOps :
              (/\ Len(conn.attempts) >= 1
               /\ conn.attempts[1].st = "failed"
               /\ conn.ops[o].pc = "done") =>
                  /\ conn.ops[o].res = "throw"
                  /\ conn.ops[o].err = ConnectError(1)

\* the inbound handler has gone through an opt-out text of phone p
OptedOut(p) ==
    \E c \in Calls : \E j \in DOMAIN calls[c].batch :
        /\ calls[c].batch[j].from = p
        /\ isOptOutText(Body(build, calls[c].batch[j]))
        /\ \/ calls[c].i > j
           \/ calls[c].pc = "done" /\ calls[c].res = "ok"

\* C38: once an inbound message with an opt-out text (stop, unsubscribe, opt out,
\* optout, cancel) of phone P has been processed, an admin broadcast that arrives
\* later sends no message to P: P is not among the recipients its send loop
\* goes through.
C38_NoBroadcastAfterOptOut ==
    [][(admin.pc = "idle" /\ admin'.pc = "send") =>
          \A k \in DOMAIN admin'.audience :
              ~OptedOut(normalizePhone(admin'.audience[k]))]_vars

\* the phones a broadcast is to reach
DistinctPhones(audience) == {normalizePhone(audience[k]) : k \in DOMAIN audience}

\* the orders' phones, the audience of the keyed broadcast
OrderPhones == {normalizePhone(orders[k].phone) : k \in DOMAIN orders} \ {Null}

\* an authorized broadcast that is no dry run and has an audience
RealBroadcast ==
    /\ admin.pc = "done"
    /\ admin.req.dry # "1"
    /\ IF build = "optout"
       THEN /\ admin.BROADCAST_KEY # ""
            /\ admin.req.key = admin.BROADCAST_KEY
            /\ OrderPhones # {}
       ELSE /\ admin.req.key = "covermeup123"
            /\ admin.req.template # ""
            /\ admin.req.csv # "1"
            /\ admin.req.to # <<>>

\* what C39 says of a finished broadcast
CountersAddUp ==
    /\ admin.status = 200
    /\ \A p \in (IF build = "optout" THEN OrderPhones
                 ELSE DistinctPhones(ListedAudience(admin.req.to))) :
          Cardinality({k \in DOMAIN admin.results :
                          normalizePhone(admin.results[k].to) = p}) = 1
    /\ admin.sent + admin.failed = admin.total
    /\ admin.total = Len(admin.audience)

\* C39: an admin broadcast that is no dry run attempts each distinct normalized
\* phone of its audience exactly once, goes on after a failed send, and reports
\* sent + failed = total = the size of the audience.
C39_EachPhoneOnceCountersAddUp ==
    [][(admin.pc # "done" /\ RealBroadcast') => CountersAddUp']_vars

\* C40: an admin broadcast sends only when its key is the broadcast key of the
\* route (BROADCAST_KEY, which must be set, or the key fixed in the listed route)
\* and dry is not 1; an unauthorized request and a dry run send nothing.
C40_SendsOnlyWithKeyAndNotDry ==
    admin.results # <<>> =>
        /\ admin.req.dry # "1"
        /\ IF build = "optout"
           THEN admin.BROADCAST_KEY # "" /\ admin.req.key = admin.BROADCAST_KEY
           ELSE admin.req.key = "covermeup123"

\* a broadcast with the right key and without dry=1 has sent and answered
C40_Witness ==
    /\ admin.pc = "done"
    /\ admin.status = 200
    /\ admin.req.key = "covermeup123"
    /\ Len(admin.results) = 2
    /\ \E k \in DOMAIN admin.results : ~admin.results[k].ok

=============================================================================
